---- MODULE Spec2Model ----
(***************************************************************************)
(* Model of final_AKS.py: the IRS EIN form automation service.             *)
(*                                                                         *)
(* One call is followed step by step.  A call is either an HTTP request   *)
(* to /run-irs-ein or a direct invocation of                               *)
(* IRSEINAutomation.run_automation with a CaseData record.  A second run   *)
(* served at the same time is followed only while both runs are inside     *)
(* capture_page_as_png, where they share the file system.  Between two     *)
(* calls a GET /download-screenshot/{record_id} may be answered.  Texts    *)
(* are TLA+ strings; Python's None is the text NULL; a Python dict read by *)
(* the automation is a sequence of <<key, value>> pairs.  Every browser,   *)
(* file and storage call is an outcome chosen by the environment.          *)
(***************************************************************************)
EXTENDS Integers, Sequences, FiniteSets, TLC

NULL == "<None>"

(***************************************************************************)
(* Text helpers: what the str methods and regular expressions used by the  *)
(* program do on ASCII text.                                               *)
(***************************************************************************)
LowerAlpha == "abcdefghijklmnopqrstuvwxyz"
UpperAlpha == "ABCDEFGHIJKLMNOPQRSTUVWXYZ"
DigitAlpha == "0123456789"

CharAt(s, i) == SubSeq(s, i, i)
CharsOf(s) == {CharAt(s, i) : i \in 1..Len(s)}

Lowers == CharsOf(LowerAlpha)
Uppers == CharsOf(UpperAlpha)
Digits == CharsOf(DigitAlpha)
Whitespace == {" ", "\t", "\n"}
WordChars == Lowers \cup Uppers \cup Digits \cup {"_"}

IndexIn(alpha, c) == CHOOSE i \in 1..Len(alpha) : CharAt(alpha, i) = c

CharUpper(c) == IF c \in Lowers THEN CharAt(UpperAlpha, IndexIn(LowerAlpha, c)) ELSE c
CharLower(c) == IF c \in Uppers THEN CharAt(LowerAlpha, IndexIn(UpperAlpha, c)) ELSE c

RECURSIVE Upper(_)
Upper(s) == IF s = "" THEN "" ELSE CharUpper(Head(s)) \o Upper(Tail(s))

RECURSIVE Lower(_)
Lower(s) == IF s = "" THEN "" ELSE CharLower(Head(s)) \o Lower(Tail(s))

RECURSIVE LStrip(_)
LStrip(s) == IF s # "" /\ Head(s) \in Whitespace THEN LStrip(Tail(s)) ELSE s

RECURSIVE RStrip(_)
RStrip(s) ==
    IF s # "" /\ CharAt(s, Len(s)) \in Whitespace
    THEN RStrip(SubSeq(s, 1, Len(s) - 1))
    ELSE s

\* str.strip()
Strip(s) == RStrip(LStrip(s))

\* str.endswith(suffix)
EndsWith(s, suffix) ==
    /\ Len(suffix) <= Len(s)
    /\ SubSeq(s, Len(s) - Len(suffix) + 1, Len(s)) = suffix

\* sub in s
Contains(s, sub) ==
    \E i \in 1..(Len(s) - Len(sub) + 1) : SubSeq(s, i, i + Len(sub) - 1) = sub

\* re.sub of a one-character class by '': keep the characters in `keep`
RECURSIVE KeepChars(_, _)
KeepChars(s, keep) ==
    IF s = "" THEN ""
    ELSE (IF Head(s) \in keep THEN Head(s) ELSE "") \o KeepChars(Tail(s), keep)

\* re.sub of a one-character class by '': drop the characters in `drop`
RECURSIVE DropChars(_, _)
DropChars(s, drop) ==
    IF s = "" THEN ""
    ELSE (IF Head(s) \in drop THEN "" ELSE Head(s)) \o DropChars(Tail(s), drop)

\* s[a:b] for 0 <= a <= b (Python slice, 0-based, end exclusive)
Slice(s, a, b) == SubSeq(s, a + 1, IF b < Len(s) THEN b ELSE Len(s))

\* s[a:]
SliceFrom(s, a) == SubSeq(s, a + 1, Len(s))

\* Truthiness of an Optional[str]: None and '' are falsy
Truthy(s) == s # NULL /\ s # ""

\* x or y, for texts
OrElse(x, y) == IF Truthy(x) THEN x ELSE y

\* d.get(k, default) for a static table
Get(table, k, default) == IF k \in DOMAIN table THEN table[k] ELSE default

\* d.get(k, default) for a dict held as a sequence of <<key, value>> pairs
DictHas(d, k) == \E i \in 1..Len(d) : d[i][1] = k
DictGet(d, k, default) ==
    IF DictHas(d, k) THEN d[CHOOSE i \in 1..Len(d) : d[i][1] = k][2] ELSE default

(***************************************************************************)
(* Mapping tables of IRSEINAutomation.                                     *)
(***************************************************************************)
STATE_MAPPING ==
    ("ALABAMA" :> "AL") @@
    ("ALASKA" :> "AK") @@
    ("ARIZONA" :> "AZ") @@
    ("ARKANSAS" :> "AR") @@
    ("CALIFORNIA" :> "CA") @@
    ("COLORADO" :> "CO") @@
    ("CONNECTICUT" :> "CT") @@
    ("DELAWARE" :> "DE") @@
    ("FLORIDA" :> "FL") @@
    ("GEORGIA" :> "GA") @@
    ("HAWAII" :> "HI") @@
    ("IDAHO" :> "ID") @@
    ("ILLINOIS" :> "IL") @@
    ("INDIANA" :> "IN") @@
    ("IOWA" :> "IA") @@
    ("KANSAS" :> "KS") @@
    ("KENTUCKY" :> "KY") @@
    ("LOUISIANA" :> "LA") @@
    ("MAINE" :> "ME") @@
    ("MARYLAND" :> "MD") @@
    ("MASSACHUSETTS" :> "MA") @@
    ("MICHIGAN" :> "MI") @@
    ("MINNESOTA" :> "MN") @@
    ("MISSISSIPPI" :> "MS") @@
    ("MISSOURI" :> "MO") @@
    ("MONTANA" :> "MT") @@
    ("NEBRASKA" :> "NE") @@
    ("NEVADA" :> "NV") @@
    ("NEW HAMPSHIRE" :> "NH") @@
    ("NEW JERSEY" :> "NJ") @@
    ("NEW MEXICO" :> "NM") @@
    ("NEW YORK" :> "NY") @@
    ("NORTH CAROLINA" :> "NC") @@
    ("NORTH DAKOTA" :> "ND") @@
    ("OHIO" :> "OH") @@
    ("OKLAHOMA" :> "OK") @@
    ("OREGON" :> "OR") @@
    ("PENNSYLVANIA" :> "PA") @@
    ("RHODE ISLAND" :> "RI") @@
    ("SOUTH CAROLINA" :> "SC") @@
    ("SOUTH DAKOTA" :> "SD") @@
    ("TENNESSEE" :> "TN") @@
    ("TEXAS" :> "TX") @@
    ("UTAH" :> "UT") @@
    ("VERMONT" :> "VT") @@
    ("VIRGINIA" :> "VA") @@
    ("WASHINGTON" :> "WA") @@
    ("WEST VIRGINIA" :> "WV") @@
    ("WISCONSIN" :> "WI") @@
    ("WYOMING" :> "WY") @@
    ("DISTRICT OF COLUMBIA" :> "DC")

ENTITY_TYPE_MAPPING ==
    ("Sole Proprietorship" :> "Sole Proprietor") @@
    ("Individual" :> "Sole Proprietor") @@
    ("Partnership" :> "Partnership") @@
    ("Joint venture" :> "Partnership") @@
    ("Limited Partnership" :> "Partnership") @@
    ("General Partnership" :> "Partnership") @@
    ("C-Corporation" :> "Corporations") @@
    ("S-Corporation" :> "Corporations") @@
    ("Professional Corporation" :> "Corporations") @@
    ("Corporation" :> "Corporations") @@
    ("Non-Profit Corporation" :> "View Additional Types, Including Tax-Exempt and Governmental Organizations") @@
    ("Limited Liability" :> "Limited Liability Company (LLC)") @@
    ("Company (LLC)" :> "Limited Liability Company (LLC)") @@
    ("LLC" :> "Limited Liability Company (LLC)") @@
    ("Limited Liability Company" :> "Limited Liability Company (LLC)") @@
    ("Limited Liability Company (LLC)" :> "Limited Liability Company (LLC)") @@
    ("Professional Limited Liability Company" :> "Limited Liability Company (LLC)") @@
    ("Limited Liability Partnership" :> "Partnership") @@
    ("LLP" :> "Partnership") @@
    ("Professional Limited Liability Company (PLLC)" :> "Limited Liability Company (LLC)") @@
    ("Association" :> "View Additional Types, Including Tax-Exempt and Governmental Organizations") @@
    ("Co-Ownership" :> "Partnership") @@
    ("Doing Business As (DBA)" :> "Sole Proprietor") @@
    ("Trusteeship" :> "Trusts")

RADIO_BUTTON_MAPPING ==
    ("Sole Proprietor" :> "sole") @@
    ("Partnership" :> "partnerships") @@
    ("Corporations" :> "corporations") @@
    ("Limited Liability Company (LLC)" :> "limited") @@
    ("Estate" :> "estate") @@
    ("Trusts" :> "trusts") @@
    ("View Additional Types, Including Tax-Exempt and Governmental Organizations" :> "viewadditional")

SUB_TYPE_MAPPING ==
    ("Sole Proprietorship" :> "Sole Proprietor") @@
    ("Individual" :> "Sole Proprietor") @@
    ("Partnership" :> "Partnership") @@
    ("Joint venture" :> "Joint Venture") @@
    ("Limited Partnership" :> "Partnership") @@
    ("General Partnership" :> "Partnership") @@
    ("C-Corporation" :> "Corporation") @@
    ("S-Corporation" :> "S Corporation") @@
    ("Professional Corporation" :> "Personal Service Corporation") @@
    ("Corporation" :> "Corporation") @@
    ("Non-Profit Corporation" :> "**This is dependent on the business_description**") @@
    ("Limited Liability" :> "N/A") @@
    ("Limited Liability Company (LLC)" :> "N/A") @@
    ("LLC" :> "N/A") @@
    ("Limited Liability Company" :> "N/A") @@
    ("Professional Limited Liability Company" :> "N/A") @@
    ("Limited Liability Partnership" :> "Partnership") @@
    ("LLP" :> "Partnership") @@
    ("Professional Limited Liability Company (PLLC)" :> "N/A") @@
    ("Association" :> "N/A") @@
    ("Co-Ownership" :> "Partnership") @@
    ("Doing Business As (DBA)" :> "N/A") @@
    ("Trusteeship" :> "Irrevocable Trust")

SUB_TYPE_BUTTON_MAPPING ==
    ("Sole Proprietor" :> "sole") @@
    ("Household Employer" :> "house") @@
    ("Partnership" :> "parnership") @@
    ("Joint Venture" :> "joint") @@
    ("Corporation" :> "corp") @@
    ("S Corporation" :> "scorp") @@
    ("Personal Service Corporation" :> "personalservice") @@
    ("Irrevocable Trust" :> "irrevocable") @@
    ("Non-Profit/Tax-Exempt Organization" :> "nonprofit") @@
    ("Other" :> "other_option")

MONTH_MAPPING ==
    ("january" :> "JANUARY") @@
    ("jan" :> "JANUARY") @@
    ("1" :> "JANUARY") @@
    ("february" :> "FEBRUARY") @@
    ("feb" :> "FEBRUARY") @@
    ("2" :> "FEBRUARY") @@
    ("march" :> "MARCH") @@
    ("mar" :> "MARCH") @@
    ("3" :> "MARCH") @@
    ("april" :> "APRIL") @@
    ("apr" :> "APRIL") @@
    ("4" :> "APRIL") @@
    ("may" :> "MAY") @@
    ("5" :> "MAY") @@
    ("june" :> "JUNE") @@
    ("jun" :> "JUNE") @@
    ("6" :> "JUNE") @@
    ("july" :> "JULY") @@
    ("jul" :> "JULY") @@
    ("7" :> "JULY") @@
    ("august" :> "AUGUST") @@
    ("aug" :> "AUGUST") @@
    ("8" :> "AUGUST") @@
    ("september" :> "SEPTEMBER") @@
    ("sep" :> "SEPTEMBER") @@
    ("9" :> "SEPTEMBER") @@
    ("october" :> "OCTOBER") @@
    ("oct" :> "OCTOBER") @@
    ("10" :> "OCTOBER") @@
    ("november" :> "NOVEMBER") @@
    ("nov" :> "NOVEMBER") @@
    ("11" :> "NOVEMBER") @@
    ("december" :> "DECEMBER") @@
    ("dec" :> "DECEMBER") @@
    ("12" :> "DECEMBER")

(***************************************************************************)
(* Pure functions of IRSEINAutomation.                                     *)
(***************************************************************************)

\* a normalisation that upper-cases without trimming
NormalizeStateUntrimmed(state) ==
    IF ~Truthy(state) THEN "TX"
    ELSE Get(STATE_MAPPING, Upper(state), IF Len(Upper(state)) = 2 THEN Upper(state) ELSE "TX")

\* IRSEINAutomation.normalize_state
normalize_state(state) ==
    IF ~Truthy(state) THEN "TX"
    ELSE LET state_clean == Strip(Upper(state))
         IN  Get(STATE_MAPPING, state_clean,
                 IF Len(state_clean) = 2 THEN state_clean ELSE "TX")

\* Parts of s between occurrences of the one-character separator sep
RECURSIVE SplitOn(_, _)
SplitOn(s, sep) ==
    IF \A i \in 1..Len(s) : CharAt(s, i) # sep THEN <<s>>
    ELSE LET i == CHOOSE j \in 1..Len(s) :
                      /\ CharAt(s, j) = sep
                      /\ \A k \in 1..(j - 1) : CharAt(s, k) # sep
         IN  <<SubSeq(s, 1, i - 1)>> \o SplitOn(SubSeq(s, i + 1, Len(s)), sep)

AllDigits(s) == s # "" /\ \A i \in 1..Len(s) : CharAt(s, i) \in Digits

DigitValue(c) == IndexIn(DigitAlpha, c) - 1

RECURSIVE Decimal(_)
Decimal(s) ==
    IF s = "" THEN 0
    ELSE 10 * Decimal(SubSeq(s, 1, Len(s) - 1)) + DigitValue(CharAt(s, Len(s)))

\* strptime directives: %Y is four digits, %m is 1..12 in one or two digits,
\* %d is 1..31 in one or two digits (a lone digit may be space-padded)
IsYearText(s) == Len(s) = 4 /\ AllDigits(s)
IsMonthText(s) == Len(s) \in {1, 2} /\ AllDigits(s) /\ Decimal(s) \in 1..12
IsDayText(s) ==
    \/ Len(s) \in {1, 2} /\ AllDigits(s) /\ Decimal(s) \in 1..31
    \/ Len(s) = 2 /\ CharAt(s, 1) = " " /\ CharAt(s, 2) \in Digits /\ Decimal(CharAt(s, 2)) \in 1..9

DayValue(s) == IF CharAt(s, 1) = " " THEN Decimal(CharAt(s, 2)) ELSE Decimal(s)

IsLeap(y) == y % 4 = 0 /\ (y % 100 # 0 \/ y % 400 = 0)

DaysIn(m, y) ==
    IF m = 2 THEN (IF IsLeap(y) THEN 29 ELSE 28)
    ELSE IF m \in {4, 6, 9, 11} THEN 30 ELSE 31

\* datetime(year, month, day) accepts the date
ValidDate(y, m, d) == y >= 1 /\ d <= DaysIn(m, y)

\* datetime.strptime(s, fmt) for the three formats of parse_formation_date:
\* <<TRUE, month, year>> when s parses, <<FALSE, 0, 0>> on ValueError
Strptime(s, fmt) ==
    LET sep == IF fmt = "%Y-%m-%d" THEN "-" ELSE "/"
        p == SplitOn(s, sep)
        yi == IF fmt = "%m/%d/%Y" THEN 3 ELSE 1
        mi == IF fmt = "%m/%d/%Y" THEN 1 ELSE 2
        di == IF fmt = "%m/%d/%Y" THEN 2 ELSE 3
    IN  IF /\ Len(p) = 3
           /\ IsYearText(p[yi]) /\ IsMonthText(p[mi]) /\ IsDayText(p[di])
           /\ ValidDate(Decimal(p[yi]), Decimal(p[mi]), DayValue(p[di]))
        THEN <<TRUE, Decimal(p[mi]), Decimal(p[yi])>>
        ELSE <<FALSE, 0, 0>>

DateFormats == <<"%Y-%m-%d", "%m/%d/%Y", "%Y/%m/%d">>

\* a parser that knows the first format only
ParseFirstFormatOnly(date_str) ==
    IF ~Truthy(date_str) THEN <<6, 2024>>
    ELSE LET r == Strptime(Strip(date_str), DateFormats[1])
         IN  IF r[1] THEN <<r[2], r[3]>> ELSE <<6, 2024>>

\* IRSEINAutomation.parse_formation_date: <<month, year>>
parse_formation_date(date_str) ==
    IF ~Truthy(date_str) THEN <<6, 2024>>
    ELSE LET s == Strip(date_str)
             ok == {i \in 1..Len(DateFormats) : Strptime(s, DateFormats[i])[1]}
         IN  IF ok = {} THEN <<6, 2024>>
             ELSE LET first == CHOOSE i \in ok : \A j \in ok : i <= j
                      r == Strptime(s, DateFormats[first])
                  IN  <<r[2], r[3]>>

\* str(n) for an integer n >= 0
RECURSIVE NatText(_)
NatText(n) ==
    IF n < 10 THEN CharAt(DigitAlpha, n + 1)
    ELSE NatText(n \div 10) \o CharAt(DigitAlpha, (n % 10) + 1)

IntText(n) == IF n < 0 THEN "-" \o NatText(0 - n) ELSE NatText(n)

\* int(s) accepts: optional surrounding whitespace, an optional sign, then digits
\* in which single underscores may separate digits
DigitGroups(s) ==
    LET g == SplitOn(s, "_") IN \A i \in 1..Len(g) : AllDigits(g[i])

Unsigned(s) == IF s # "" /\ Head(s) \in {"+", "-"} THEN Tail(s) ELSE s

IsIntText(s) == DigitGroups(Unsigned(Strip(s)))

IntValue(s) ==
    LET t == Strip(s)
        v == Decimal(DropChars(Unsigned(t), {"_"}))
    IN  IF Head(t) = "-" THEN 0 - v ELSE v

(***************************************************************************)
(* CaseData.  The model keeps the fields the automation reads; every field *)
(* but record_id is Optional (NULL when absent).  entity_members,          *)
(* mailing_address and llc_details are None or a dict.  The remaining      *)
(* CaseData fields are only copied into the outcome record.                *)
(***************************************************************************)
CaseFields ==
    {"record_id", "form_type", "entity_name", "entity_type", "formation_date",
     "business_description", "business_address_1", "entity_state", "city",
     "zip_code", "entity_state_record_state", "ssn_decrypted", "entity_members",
     "mailing_address", "county", "trade_name", "care_of_name", "closing_month",
     "llc_details"}

DictFields == {"entity_members", "mailing_address", "llc_details"}

\* None in a dict field: the one sequence that is not a sequence of pairs
NoneDict == << << NULL >> >>
IsNoneDict(d) == Len(d) = 1 /\ Len(d[1]) = 1

NoneOf(f) == IF f \in DictFields THEN NoneDict ELSE NULL

\* CaseData(record_id=r): every optional field at its declared default None
CaseData(r) == [f \in CaseFields |-> IF f = "record_id" THEN r ELSE NoneOf(f)]

\* pydantic validation of Dict[str, str]: a None value is rejected
DictOfStr(d) == IsNoneDict(d) \/ \A i \in 1..Len(d) : d[i][2] # NULL

\* CaseData(...) constructs (no ValidationError)
CaseDataValid(d) ==
    /\ d.record_id # NULL
    /\ DictOfStr(d.entity_members)
    /\ DictOfStr(d.mailing_address)

\* IRSEINAutomation._get_defaults
_get_defaults(data) ==
    LET entity_members_dict == IF IsNoneDict(data.entity_members) THEN << >> ELSE data.entity_members
    IN  [first_name           |-> OrElse(DictGet(entity_members_dict, "first_name_1", ""), "Rob"),
         last_name            |-> OrElse(DictGet(entity_members_dict, "last_name_1", ""), "Chuchla"),
         phone                |-> OrElse(DictGet(entity_members_dict, "phone_1", ""), "2812173123"),
         ssn_decrypted        |-> OrElse(data.ssn_decrypted, "123456789"),
         entity_name          |-> OrElse(data.entity_name, "Lane Four Capital Partners LLC"),
         business_address_1   |-> OrElse(data.business_address_1, "3315 Cherry Ln"),
         city                 |-> OrElse(data.city, "Austin"),
         zip_code             |-> OrElse(data.zip_code, "78703"),
         business_description |-> OrElse(data.business_description, "Any and lawful business"),
         formation_date       |-> OrElse(data.formation_date, "2024-05-24"),
         county               |-> OrElse(data.county, "Travis")]

\* a dict is truthy when it is neither None nor empty
DictTruthy(d) == ~IsNoneDict(d) /\ Len(d) > 0

(***************************************************************************)
(* navigate_and_fill_form as the sequence of browser interactions it       *)
(* issues for a record.  An instruction is one statement of the procedure: *)
(* op is the primitive called, okSkip / failSkip the number of following   *)
(* instructions skipped when it returns True / False, and failSkip = -1    *)
(* means the procedure raises (msg) when the interaction fails.            *)
(***************************************************************************)
Ins(op, target, value, okSkip, failSkip, msg) ==
    [op |-> op, target |-> target, value |-> value,
     okSkip |-> okSkip, failSkip |-> failSkip, msg |-> msg]

\* `if not primitive(...): raise Exception(msg)`
Must(op, target, value, msg) == Ins(op, target, value, 0, -1, msg)

\* a failure that is logged and then raised
LoggedAndRaised(op, target, value) == Ins(op, target, value, 0, -1, "")

\* a failure that is logged and ignored
May(op, target, value) == Ins(op, target, value, 0, 0, "")

\* a Python error raised by the statement itself
Raise(msg) == Ins("raise", "", "", 0, -1, msg)

ContinueButton == "Continue >>"
AcceptButton == "Accept As Entered"
LLC == "Limited Liability Company (LLC)"

entity_type_of(data) == Strip(data.entity_type)
mapped_type_of(data) == Get(ENTITY_TYPE_MAPPING, entity_type_of(data), NULL)
radio_id_of(data) == Get(RADIO_BUTTON_MAPPING, mapped_type_of(data), NULL)

BeginApplication ==
    << Must("get", "https://sa.www4.irs.gov/modiein/individual/index.jsp", "", "navigation failed"),
       Must("click", "Begin Application >>", "", "Failed to begin application"),
       Must("wait", "individual-leftcontent", "", "timeout") >>

EntityTypePage(data) ==
    IF data.entity_type = NULL
    THEN << Raise("'NoneType' object has no attribute 'strip'") >>
    ELSE << Must("radio", radio_id_of(data), "", "Failed to select entity type"),
            Must("click", ContinueButton, "", "Failed to continue after entity type selection") >>

nonprofit_keywords == {"non-profit", "nonprofit", "charity", "charitable", "501(c)", "tax-exempt"}

\* a resolution that looks for the keywords without lower-casing the description
SubTypeCaseSensitive(data) ==
    IF entity_type_of(data) = "Non-Profit Corporation"
    THEN IF \E keyword \in nonprofit_keywords : Contains(OrElse(data.business_description, ""), keyword)
         THEN "Non-Profit/Tax-Exempt Organization"
         ELSE "Other"
    ELSE Get(SUB_TYPE_MAPPING, entity_type_of(data), "Other")

sub_type_of(data) ==
    IF entity_type_of(data) = "Non-Profit Corporation"
    THEN LET business_desc == Lower(OrElse(data.business_description, ""))
         IN  IF \E keyword \in nonprofit_keywords : Contains(business_desc, keyword)
             THEN "Non-Profit/Tax-Exempt Organization"
             ELSE "Other"
    ELSE Get(SUB_TYPE_MAPPING, entity_type_of(data), "Other")

sub_type_radio_id_of(data) == Get(SUB_TYPE_BUTTON_MAPPING, sub_type_of(data), "other_option")

\* a skip test that leaves out the LLC category
SkipsSubTypeEstateOnly(mapped_type) == mapped_type = "Estate"

SkipsSubType(mapped_type) == mapped_type \in {LLC, "Estate"}

SubTypePage(data) ==
    IF ~SkipsSubType(mapped_type_of(data))
    THEN << Must("radio", sub_type_radio_id_of(data), "", "Failed to select sub-type"),
            Must("click", ContinueButton, "", "Failed to continue after sub-type selection (first click)"),
            Must("click", ContinueButton, "", "Failed to continue after sub-type selection (second click)") >>
    ELSE << Must("click", ContinueButton, "", "Failed to continue after entity type") >>

\* a member count that is parsed but not clamped
LlcMembersUnclamped(data) ==
    LET n == IF IsNoneDict(data.llc_details) THEN NULL
             ELSE DictGet(data.llc_details, "number_of_members", NULL)
    IN  IF n # NULL /\ IsIntText(n) THEN IntValue(n) ELSE 1

llc_members_of(data) ==
    LET n == IF IsNoneDict(data.llc_details) THEN NULL
             ELSE DictGet(data.llc_details, "number_of_members", NULL)
    IN  IF n # NULL /\ IsIntText(n)
        THEN (IF IntValue(n) < 1 THEN 1 ELSE IntValue(n))
        ELSE 1

state_value_of(data) ==
    normalize_state(OrElse(data.entity_state, data.entity_state_record_state))

LLCPage(data) ==
    IF mapped_type_of(data) = LLC
    THEN << Must("type", "numbermem", IntText(llc_members_of(data)), "element error"),
            Must("dropdown", "state", state_value_of(data), "Failed to select state"),
            Must("click", ContinueButton, "", "Failed to continue after LLC members and state") >>
    ELSE << >>

specific_states == {"AZ", "CA", "ID", "LA", "NV", "NM", "TX", "WA", "WI"}

\* a branch test that looks at the category only
NonPartnershipAnyState(data) == mapped_type_of(data) = LLC

NonPartnershipLLC(data) ==
    mapped_type_of(data) = LLC /\ state_value_of(data) \in specific_states

NonPartnershipPage(data) ==
    IF NonPartnershipLLC(data)
    THEN << Must("radio", "radio_n", "", "Failed to select non-partnership LLC option"),
            Must("click", ContinueButton, "", "Failed to continue after non-partnership LLC option"),
            Must("click", ContinueButton, "", "Failed to continue after confirmation") >>
    ELSE << Must("click", ContinueButton, "", "Failed to continue after LLC") >>

NewBusinessPage ==
    << Must("radio", "newbiz", "", "Failed to select new business"),
       Must("click", ContinueButton, "", "Failed to continue after business purpose") >>

first_name_of(data) ==
    IF DictTruthy(data.entity_members)
    THEN DictGet(data.entity_members, "first_name_1", _get_defaults(data).first_name)
    ELSE _get_defaults(data).first_name

last_name_of(data) ==
    IF DictTruthy(data.entity_members)
    THEN DictGet(data.entity_members, "last_name_1", _get_defaults(data).last_name)
    ELSE _get_defaults(data).last_name

\* a page that fills the applicant field whatever the first fill returned
FillBoth(primary, fallback, value, msg) ==
    << Ins("fill", primary, value, 0, 0, ""),
       Must("fill", fallback, value, msg) >>

\* try the responsibleParty field, then the applicant field, else raise
FillEither(primary, fallback, value, msg) ==
    << Ins("fill", primary, value, 1, 0, ""),
       Must("fill", fallback, value, msg) >>

ResponsiblePartyPage(data) ==
    LET ssn == DropChars(_get_defaults(data).ssn_decrypted, {"-"})
    IN  FillEither("responsiblePartyFirstName", "applicantFirstName", first_name_of(data), "Failed to fill First Name")
        \o FillEither("responsiblePartyLastName", "applicantLastName", last_name_of(data), "Failed to fill Last Name")
        \o FillEither("responsiblePartySSN3", "applicantSSN3", Slice(ssn, 0, 3), "Failed to fill SSN First 3")
        \o FillEither("responsiblePartySSN2", "applicantSSN2", Slice(ssn, 3, 5), "Failed to fill SSN Middle 2")
        \o FillEither("responsiblePartySSN4", "applicantSSN4", SliceFrom(ssn, 5), "Failed to fill SSN Last 4")
        \o << Must("radio", "iamsole", "", "Failed to select I Am Sole"),
              Must("click", ContinueButton, "", "Failed to continue after responsible party") >>

PhonePart(data) ==
    LET phone_clean == KeepChars(_get_defaults(data).phone, Digits)
    IN  IF Len(phone_clean) = 10
        THEN << Must("fill", "phoneFirst3", Slice(phone_clean, 0, 3), "Failed to fill Phone First 3"),
                Must("fill", "phoneMiddle3", Slice(phone_clean, 3, 6), "Failed to fill Phone Middle 3"),
                Must("fill", "phoneLast4", Slice(phone_clean, 6, 10), "Failed to fill Phone Last 4") >>
        ELSE << >>

CareOfPart(data) ==
    IF Truthy(data.care_of_name)
    THEN << Ins("wait", "physicalAddressCareofName", "", 0, 1, ""),
            May("fill", "physicalAddressCareofName", data.care_of_name) >>
    ELSE << >>

PhysicalAddressPage(data) ==
    LET defaults == _get_defaults(data)
    IN  << Must("fill", "physicalAddressStreet", defaults.business_address_1, "Failed to fill Physical Street"),
           Must("fill", "physicalAddressCity", defaults.city, "Failed to fill Physical City"),
           Must("dropdown", "physicalAddressState", normalize_state(data.entity_state), "Failed to select Physical State"),
           Must("fill", "physicalAddressZipCode", defaults.zip_code, "Failed to fill Physical Zip") >>
        \o PhonePart(data) \o CareOfPart(data)

mailing_keys == << "mailingStreet", "mailingCity", "mailingState", "mailingZip" >>

mailing_address_of(data) ==
    IF DictTruthy(data.mailing_address) THEN data.mailing_address ELSE << >>

\* any(mailing_address.get(key, "").strip() for key in mailing_keys), evaluated
\* left to right from key i: "yes", "no", or "raise" when .strip() meets None
RECURSIVE AnyMailing(_, _)
AnyMailing(ma, i) ==
    IF i > Len(mailing_keys) THEN "no"
    ELSE LET v == DictGet(ma, mailing_keys[i], "")
         IN  IF v = NULL THEN "raise"
             ELSE IF Strip(v) # "" THEN "yes"
             ELSE AnyMailing(ma, i + 1)

\* a test that takes a sub-field of spaces for an address
HasMailingUntrimmed(data) ==
    LET ma == mailing_address_of(data)
    IN  IF \E i \in 1..Len(mailing_keys) : DictGet(ma, mailing_keys[i], "") # ""
        THEN "yes" ELSE "no"

has_mailing_address(data) == AnyMailing(mailing_address_of(data), 1)

AcceptAsEntered == << May("click", AcceptButton, "") >>

MailingDecisionPage(data) ==
    IF has_mailing_address(data) = "raise"
    THEN << Raise("'NoneType' object has no attribute 'strip'") >>
    ELSE << IF has_mailing_address(data) = "yes"
            THEN Must("radio", "radioAnotherAddress_y", "", "Failed to select Address option (Yes)")
            ELSE Must("radio", "radioAnotherAddress_n", "", "Failed to select Address option (No)"),
            Must("click", ContinueButton, "", "Failed to continue after address option") >>
         \o AcceptAsEntered

MailingAddressPage(data) ==
    LET ma == mailing_address_of(data)
    IN  IF has_mailing_address(data) = "yes"
        THEN << Must("fill", "mailingAddressStreet", DictGet(ma, "mailingStreet", ""), "Failed to fill Mailing Street"),
                Must("fill", "mailingAddressCity", DictGet(ma, "mailingCity", ""), "Failed to fill Mailing City"),
                Must("fill", "mailingAddressState", DictGet(ma, "mailingState", ""), "Failed to select Mailing State"),
                Must("fill", "mailingAddressPostalCode", DictGet(ma, "mailingZip", ""), "Failed to fill Mailing Zip"),
                Must("click", ContinueButton, "", "Failed to continue after mailing address") >>
             \o AcceptAsEntered
        ELSE << >>

name_endings == << "Corp", "Inc", "LLC", "LC", "PLLC", "PA" >>

\* the loop over name_endings, from ending i on
RECURSIVE StripEndings(_, _)
StripEndings(business_name, i) ==
    IF i > Len(name_endings) THEN business_name
    ELSE IF EndsWith(Upper(business_name), Upper(name_endings[i]))
         THEN StripEndings(
                  Strip(SubSeq(business_name, 1, Len(business_name) - Len(name_endings[i]))),
                  i + 1)
         ELSE StripEndings(business_name, i + 1)

\* re.sub(r'[^\w\s\-&]', '', name)
clean_business_name(entity_name) ==
    KeepChars(StripEndings(entity_name, 1), WordChars \cup Whitespace \cup {"-", "&"})

LegalNamePart(data) ==
    << May("fill", "businessOperationalLegalName",
           clean_business_name(_get_defaults(data).entity_name)) >>

TradeNamePart(data) ==
    IF Truthy(data.trade_name)
    THEN << Must("fill", "businessOperationalTradeName", data.trade_name, "Failed to fill Trade Name") >>
    ELSE << >>

FormationDatePart(data) ==
    LET my == parse_formation_date(_get_defaults(data).formation_date)
    IN  << Must("dropdown", "BUSINESS_OPERATIONAL_MONTH_ID", IntText(my[1]), "Failed to select Formation Month"),
           Must("fill", "BUSINESS_OPERATIONAL_YEAR_ID", IntText(my[2]), "Failed to fill Formation Year") >>

normalized_month_of(data) == Get(MONTH_MAPPING, Strip(Lower(data.closing_month)), NULL)

FiscalMonthPart(data) ==
    IF Truthy(data.closing_month) /\ normalized_month_of(data) # NULL
    THEN << May("fiscal", "fiscalMonth", normalized_month_of(data)) >>
    ELSE << >>

BusinessDetailsPage(data) ==
    LegalNamePart(data)
    \o << Must("fill", "businessOperationalCounty", normalize_state(data.entity_state), "Failed to fill County"),
          Ins("dropdown", "articalsFiledState", normalize_state(data.county), 1, 0, ""),
          May("dropdown", "businessOperationalState", normalize_state(data.county)) >>
    \o TradeNamePart(data)
    \o FormationDatePart(data)
    \o FiscalMonthPart(data)
    \o << Must("click", ContinueButton, "", "Failed to continue after formation date") >>

nature_radios ==
    << "radioTrucking_n", "radioInvolveGambling_n", "radioExciseTax_n",
       "radioSellTobacco_n", "radioHasEmployees_n" >>

BusinessNaturePage ==
    << Must("radio", nature_radios[1], "", "Failed to select " \o nature_radios[1]),
       Must("radio", nature_radios[2], "", "Failed to select " \o nature_radios[2]),
       Must("radio", nature_radios[3], "", "Failed to select " \o nature_radios[3]),
       Must("radio", nature_radios[4], "", "Failed to select " \o nature_radios[4]),
       Must("radio", nature_radios[5], "", "Failed to select " \o nature_radios[5]) >>
    \o << Must("click", ContinueButton, "", "Failed to continue after formation date") >>

\* activity pages that answer with the record's business description
ActivityPagesFromData(data) ==
    << Must("radio", OrElse(data.business_description, "other"), "", "Failed to select Other activity"),
       Must("click", ContinueButton, "", "Failed to continue after primary activity"),
       Must("radio", OrElse(data.business_description, "other"), "", "Failed to select Other service"),
       Must("fill", "pleasespecify", _get_defaults(data).business_description, "Failed to fill Business Description"),
       Must("click", ContinueButton, "", "Failed to continue after specify service") >>

ActivityPages(data) ==
    << Must("radio", "other", "", "Failed to select Other activity"),
       Must("click", ContinueButton, "", "Failed to continue after primary activity"),
       Must("radio", "other", "", "Failed to select Other service"),
       Must("fill", "pleasespecify", _get_defaults(data).business_description, "Failed to fill Business Description"),
       Must("click", ContinueButton, "", "Failed to continue after specify service") >>

DeliveryPage ==
    << Must("radio", "receiveonline", "", "Failed to select Receive Online") >>

\* the statements of navigate_and_fill_form, in program order
navigate_and_fill_form(data) ==
    BeginApplication
    \o EntityTypePage(data)
    \o SubTypePage(data)
    \o LLCPage(data)
    \o NonPartnershipPage(data)
    \o NewBusinessPage
    \o ResponsiblePartyPage(data)
    \o PhysicalAddressPage(data)
    \o MailingDecisionPage(data)
    \o MailingAddressPage(data)
    \o BusinessDetailsPage(data)
    \o BusinessNaturePage
    \o ActivityPages(data)
    \o DeliveryPage

(***************************************************************************)
(* Interaction primitives of FormAutomationBase.  The browser's behaviour  *)
(* during one call is an outcome chosen by the environment; the operator   *)
(* computes what the primitive returns for it.                             *)
(***************************************************************************)
DefaultRetries == 3

\* click_strategies: clickable_element.click(), the script click, the
\* ActionChains pointer click
click_strategies == << "click", "js", "pointer" >>
ClickedBy == {click_strategies[i] : i \in DOMAIN click_strategies}

\* what the browser does during one attempt of click_button: whether the waits
\* for the element come back, and which strategies throw
Attempt(found, throws) == [found |-> found, throws |-> throws]

\* a loop over the strategies that goes on after a strategy has clicked
TryEveryStrategy(throws, i) ==
    [k \in 1..(Len(click_strategies) + 1 - i) |->
        << click_strategies[k + i - 1],
           IF click_strategies[k + i - 1] \in throws THEN "throws" ELSE "ok" >>]

\* `for strategy in click_strategies` from the i-th strategy on: the calls
\* made, each with its result
RECURSIVE try_strategies(_, _)
try_strategies(throws, i) ==
    IF i > Len(click_strategies) THEN << >>
    ELSE IF click_strategies[i] \notin throws
         THEN << << click_strategies[i], "ok" >> >>
         ELSE << << click_strategies[i], "throws" >> >> \o try_strategies(throws, i + 1)

\* the body of one attempt: the calls made, and whether it returned True
click_attempt(a) ==
    IF ~a.found
    THEN [ok |-> FALSE, calls |-> << << "wait", "throws" >> >>]
    ELSE LET tried == try_strategies(a.throws, 1)
         IN  [ok |-> tried[Len(tried)][2] = "ok", calls |-> << << "wait", "ok" >> >> \o tried]

\* a loop that gives up one attempt early
RECURSIVE ClickLoopOneShort(_, _, _, _)
ClickLoopOneShort(attempts, attempt, retries, made) ==
    IF attempt >= retries
    THEN [ok |-> FALSE, attempts |-> attempt, calls |-> made]
    ELSE LET r == click_attempt(attempts[attempt + 1])
             c == made \o r.calls
         IN  IF r.ok
             THEN [ok |-> TRUE, attempts |-> attempt + 1, calls |-> c]
             ELSE ClickLoopOneShort(attempts, attempt + 1, retries, c)

\* the loop of click_button from attempt number `attempt` (0-based);
\* attempts[i] is what the browser does during the i-th attempt
RECURSIVE click_loop(_, _, _, _)
click_loop(attempts, attempt, retries, made) ==
    IF attempt > retries
    THEN [ok |-> FALSE, attempts |-> attempt, calls |-> made]
    ELSE LET r == click_attempt(attempts[attempt + 1])
             c == made \o r.calls
         IN  IF r.ok
             THEN [ok |-> TRUE, attempts |-> attempt + 1, calls |-> c]
             ELSE IF attempt = retries
                  THEN [ok |-> FALSE, attempts |-> attempt + 1, calls |-> c]
                  ELSE click_loop(attempts, attempt + 1, retries, c)

\* FormAutomationBase.click_button
click_button(attempts, retries) == click_loop(attempts, 0, retries, << >>)

\* FormAutomationBase.select_radio: the element never becomes clickable, the
\* script reports checked, the script reports unchecked and the native click
\* works or throws, or the script throws
RadioOutcomes == {"not_clickable", "js_checked", "native_click", "native_click_throws", "js_throws"}

select_radio(radio_id, outcome) == outcome \in {"js_checked", "native_click"}

\* the calls select_radio makes, each with its result: the wait for the
\* element, the script that sets and reads `checked`, radio.click()
radio_calls(outcome) ==
    IF outcome = "not_clickable" THEN << << "wait", "throws" >> >>
    ELSE IF outcome = "js_checked" THEN << << "wait", "ok" >>, << "set_checked", "true" >> >>
    ELSE IF outcome = "js_throws" THEN << << "wait", "ok" >>, << "set_checked", "throws" >> >>
    ELSE << << "wait", "ok" >>, << "set_checked", "false" >>,
            << "click", IF outcome = "native_click" THEN "ok" ELSE "throws" >> >>

\* an element can be located only by an id that is defined
RadioOutcomesFor(radio_id) == IF radio_id = NULL THEN {"not_clickable"} ELSE RadioOutcomes

\* FormAutomationBase.fill_field; `touched` tells whether the browser was used
FillOutcomes == {"typed", "error"}

BlankValue(value) == ~Truthy(value) \/ Strip(value) = ""

\* a fill that sends a blank value to the browser like any other
FillFieldTypesBlank(value, outcome) == [ok |-> outcome = "typed", touched |-> TRUE]

fill_field(value, outcome) ==
    IF BlankValue(value)
    THEN [ok |-> FALSE, touched |-> FALSE]
    ELSE [ok |-> outcome = "typed", touched |-> TRUE]

\* FormAutomationBase.select_dropdown
DropdownOutcomes == {"selected", "error"}

select_dropdown(value, outcome) == outcome = "selected"

\* one round of the fiscal-month block: the wait for the dropdown throws, the
\* month is not among the options, it is selected, or the selection throws
FiscalOutcomes == {"not_clickable", "not_offered", "selected", "select_throws"}

\* `retries = 2` and `for attempt in range(1)`
fiscal_retries == 2
fiscal_rounds == 1

\* the calls of one round, each with its result
fiscal_calls(outcome) ==
    IF outcome = "not_clickable" THEN << << "wait", "throws" >> >>
    ELSE IF outcome = "not_offered" THEN << << "wait", "ok" >>, << "options", "absent" >> >>
    ELSE << << "wait", "ok" >>, << "options", "present" >>,
            << "select", IF outcome = "selected" THEN "ok" ELSE "throws" >> >>

\* the for loop from round `attempt` (0-based); outcomes[i] is what the
\* browser does in the i-th round
RECURSIVE fiscal_loop(_, _, _, _)
fiscal_loop(outcomes, attempt, rounds, made) ==
    IF attempt >= rounds
    THEN [ok |-> FALSE, calls |-> made]
    ELSE LET o == outcomes[attempt + 1]
             c == made \o fiscal_calls(o)
         IN  IF o \in {"not_offered", "selected"}
             THEN [ok |-> o = "selected", calls |-> c]
             ELSE IF attempt < fiscal_retries
                  THEN fiscal_loop(outcomes, attempt + 1, rounds, c)
                  ELSE [ok |-> FALSE, calls |-> c]

\* the fiscal-month block, which never raises
select_fiscal_month(outcomes) == fiscal_loop(outcomes, 0, fiscal_rounds, << >>)

(***************************************************************************)
(* Values returned by capture_page_as_png and carried in the result of     *)
(* run_automation, tagged with their Python type.                          *)
(***************************************************************************)
NoneVal == [type |-> "NoneType", items |-> << >>]
StrVal(s) == [type |-> "str", items |-> << s >>]
TupleVal(a, b) == [type |-> "tuple", items |-> << a, b >>]

\* bool(v): None, '' and the empty tuple are falsy
ValTruthy(v) ==
    IF v.type = "NoneType" THEN FALSE
    ELSE IF v.type = "str" THEN v.items[1] # ""
    ELSE Len(v.items) > 0

\* open(v, "rb") works only on the path of an existing file
CanOpen(v, existing) == v.type = "str" /\ v.items[1] \in existing

STATIC_DIR == "static/"
HOST_URL == "https://host"
BLOB_ROOT == "https://formfillscreenshots.blob.core.windows.net/payload/"

\* png_filename of run_automation
png_filename_of(record_id, now) == "print_" \o record_id \o "_" \o now \o ".png"

\* os.path.splitext(filename)[0] for a name whose extension is .png
BaseName(filename) == SubSeq(filename, 1, Len(filename) - 4)

\* str.startswith(prefix)
StartsWith(s, prefix) ==
    /\ Len(prefix) <= Len(s)
    /\ SubSeq(s, 1, Len(prefix)) = prefix

\* the characters of file names in code-point order
CodePoints == "." \o DigitAlpha \o UpperAlpha \o "_" \o LowerAlpha

Ord(c) == CHOOSE i \in 1..Len(CodePoints) : CharAt(CodePoints, i) = c

\* a < b as Python compares two str
RECURSIVE StrLess(_, _)
StrLess(a, b) ==
    IF b = "" THEN FALSE
    ELSE IF a = "" THEN TRUE
    ELSE IF CharAt(a, 1) = CharAt(b, 1) THEN StrLess(Tail(a), Tail(b))
    ELSE Ord(CharAt(a, 1)) < Ord(CharAt(b, 1))

\* sorted(names)[-1]
LastSorted(names) == CHOOSE n \in names : \A m \in names : m = n \/ StrLess(m, n)

\* download_screenshot: the response for record_id when os.listdir gives listing
download_screenshot(record_id, listing) ==
    LET png_files == {f \in listing : StartsWith(f, "print_" \o record_id \o "_")
                                        /\ EndsWith(f, ".png")}
    IN  IF png_files = {}
        THEN [status |-> 404, detail |-> "Screenshot not found", file |-> ""]
        ELSE [status |-> 200, detail |-> "", file |-> STATIC_DIR \o LastSorted(png_files)]

temp_pdf_of(filename) == "temp_pdf_" \o BaseName(filename) \o ".pdf"

\* capture_page_as_png (the definition in force): printing to PDF throws, creating
\* or writing the PDF file throws, the conversion throws, or the PNG is saved
CaptureOutcomes == {"print_fails", "pdf_open_fails", "pdf_write_fails", "convert_fails", "saved"}

\* a capture whose finally clause finds the temporary PDF only after a saved PNG
PdfWrittenOnlyWhenSaved(outcome) == outcome = "saved"

\* the temporary PDF exists when capture reaches its finally clause
PdfWritten(outcome) == outcome \in {"pdf_write_fails", "convert_fails", "saved"}

capture_page_as_png(filename, outcome) ==
    IF outcome = "saved"
    THEN TupleVal(STATIC_DIR \o filename, HOST_URL \o "/static/" \o filename)
    ELSE TupleVal(NULL, NULL)

\* re.sub(r'[^\w\-]', '', legal_name.replace(" ", ""))
clean_legal_name(legal_name) ==
    KeepChars(DropChars(legal_name, {" "}), WordChars \cup {"-"})

screenshot_blob_name(entity_process_id, legal_name) ==
    entity_process_id \o "/" \o clean_legal_name(legal_name) \o "EINScreenshot.png"

StorageOutcomes == {"accepts", "rejects"}

\* upload_screenshot_to_azure_sync: the blob URL, or None on any exception
upload_screenshot_to_azure_sync(entity_process_id, legal_name, png_path, existing, storage) ==
    IF CanOpen(png_path, existing) /\ storage = "accepts"
    THEN BLOB_ROOT \o screenshot_blob_name(entity_process_id, legal_name)
    ELSE NULL

json_blob_name(record_id, entity_name) ==
    record_id \o "/" \o clean_legal_name(entity_name) \o "_data.json"

\* _save_json_data_sync: True when the record was stored
_save_json_data_sync(entity_name, storage) ==
    entity_name # NULL /\ storage = "accepts"

(***************************************************************************)
(* DataProcessor.map_form_automation_data.  The payload is a dict; a key   *)
(* that is absent reads as None (or as the default given to .get).         *)
(***************************************************************************)

\* the first member of ownership_details whose name equals the responsible
\* party's, case-insensitively; 0 when there is none
MatchingMember(ownership_details, first, last) ==
    LET hits == {i \in 1..Len(ownership_details) :
                    /\ Lower(Strip(DictGet(ownership_details[i], "firstName", ""))) = Lower(first)
                    /\ Lower(Strip(DictGet(ownership_details[i], "lastName", ""))) = Lower(last)}
    IN  IF hits = {} THEN 0 ELSE CHOOSE i \in hits : \A j \in hits : i <= j

entity_members_from(form_data) ==
    LET responsible_party == DictGet(form_data, "responsibleParty", << >>)
        ownership_details == DictGet(form_data, "ownershipDetails", << >>)
        responsible_first_name == Strip(DictGet(responsible_party, "firstName", ""))
        responsible_last_name == Strip(DictGet(responsible_party, "lastName", ""))
        m == MatchingMember(ownership_details, responsible_first_name, responsible_last_name)
    IN  IF m # 0
        THEN LET member == ownership_details[m]
             IN  << << "first_name_1", DictGet(member, "firstName", NULL) >>,
                    << "last_name_1", DictGet(member, "lastName", NULL) >>,
                    << "phone_1", DictGet(responsible_party, "phone", NULL) >>,
                    << "name_1", Strip(DictGet(member, "firstName", "") \o " " \o DictGet(member, "lastName", "")) >>,
                    << "percent_ownership_1", DictGet(member, "ownershipPercentage", NULL) >> >>
        ELSE << << "first_name_1", responsible_first_name >>,
                << "last_name_1", responsible_last_name >>,
                << "phone_1", DictGet(responsible_party, "phone", NULL) >>,
                << "name_1", Strip(responsible_first_name \o " " \o responsible_last_name) >>,
                << "percent_ownership_ownership_1", NULL >> >>

map_form_automation_data(form_data) ==
    LET mailing_address == DictGet(form_data, "mailingAddress", << >>)
        physical_address == DictGet(form_data, "physicalAddress", << >>)
        llc_details == DictGet(form_data, "llcDetails", << >>)
        given_type == DictGet(form_data, "entityType", NULL)
    IN  [record_id                 |-> DictGet(form_data, "entityProcessId", "temp_record_id"),
         form_type                 |-> DictGet(form_data, "formType", NULL),
         entity_name               |-> DictGet(form_data, "legalName", NULL),
         entity_type               |-> IF ~Truthy(given_type) THEN LLC ELSE Strip(given_type),
         formation_date            |-> DictGet(form_data, "startDate", NULL),
         business_description      |-> DictGet(form_data, "principalActivity", NULL),
         business_address_1        |-> DictGet(physical_address, "physicalStreet", NULL),
         entity_state              |-> DictGet(physical_address, "physicalState", NULL),
         city                      |-> DictGet(physical_address, "physicalCity", NULL),
         zip_code                  |-> DictGet(physical_address, "Zip", NULL),
         entity_state_record_state |-> DictGet(physical_address, "physicalState", NULL),
         ssn_decrypted             |-> DictGet(DictGet(form_data, "responsibleParty", << >>), "ssnOrItinOrEin", NULL),
         entity_members            |-> entity_members_from(form_data),
         mailing_address           |-> << << "mailingStreet", DictGet(mailing_address, "mailingStreet", NULL) >>,
                                          << "mailingCity", DictGet(mailing_address, "mailingCity", NULL) >>,
                                          << "mailingState", DictGet(mailing_address, "mailingState", NULL) >>,
                                          << "mailingZip", DictGet(mailing_address, "mailingZip", NULL) >> >>,
         county                    |-> DictGet(form_data, "county", NULL),
         trade_name                |-> DictGet(form_data, "tradeName", NULL),
         care_of_name              |-> DictGet(form_data, "careOfName", NULL),
         closing_month             |-> DictGet(form_data, "closingMonth", NULL),
         llc_details               |-> IF DictGet(llc_details, "numberOfMembers", NULL) # NULL
                                       THEN << << "number_of_members", DictGet(llc_details, "numberOfMembers", NULL) >> >>
                                       ELSE NoneDict]

(***************************************************************************)
(* Inputs: the CaseData records handed to run_automation directly, and the *)
(* HTTP requests sent to /run-irs-ein.                                     *)
(***************************************************************************)
MaxCalls == 2

BaseCase ==
    [record_id                 |-> "rec1",
     form_type                 |-> "EIN",
     entity_name               |-> "Acme Holdings LLC",
     entity_type               |-> "LLC",
     formation_date            |-> "2023-02-15",
     business_description      |-> "Consulting",
     business_address_1        |-> "1 Main St",
     entity_state              |-> "CA",
     city                      |-> "Fresno",
     zip_code                  |-> "93650",
     entity_state_record_state |-> "CA",
     ssn_decrypted             |-> "123-45-6789",
     entity_members            |-> << << "first_name_1", "Ann" >>, << "last_name_1", "Lee" >>,
                                      << "phone_1", "(555) 123-4567" >> >>,
     mailing_address           |-> NoneDict,
     county                    |-> "Fresno",
     trade_name                |-> NULL,
     care_of_name              |-> NULL,
     closing_month             |-> NULL,
     llc_details               |-> << << "number_of_members", "2" >> >>]

EntityTypes ==
    {NULL, "", "LLC", " LLC ", "Corporation", "Non-Profit Corporation", "Sole Proprietorship",
     "Trusteeship", "Association", "Estate", "Cooperative"}

States == {NULL, "CA", "new york", "NV", "Atlantis"}

Descriptions ==
    {NULL, "", "Consulting", "Local Charity fund", "A NON-PROFIT group", "nonprofit",
     "Charitable trust", "501(C)(3) org", "Tax-Exempt body", "non profit club", "501c3"}

Mailings ==
    {NoneDict, << >>,
     << << "mailingStreet", "" >>, << "mailingCity", " " >>, << "mailingState", "" >>, << "mailingZip", "" >> >>,
     << << "mailingStreet", "9 Oak Ave" >> >>,
     << << "mailingStreet", " " >>, << "mailingZip", "78701" >> >>,
     << << "mailingStreet", "9 Oak Ave" >>, << "mailingCity", "Austin" >>,
        << "mailingState", "TX" >>, << "mailingZip", "78701" >> >>}

MemberCounts == {NULL, "", "0", "abc", "3", "-2", " 7 ", "1_0", "2.5", "12"}

LlcDetails == {NoneDict} \cup {<< << "number_of_members", n >> >> : n \in MemberCounts}

OptionalFields == CaseFields \ {"record_id"}

\* the record d with the fields of `absent` set to None
Without(d, absent) == [f \in CaseFields |-> IF f \in absent THEN NoneOf(f) ELSE d[f]]

AbsentSets ==
    {{f} : f \in OptionalFields} \cup {OptionalFields, OptionalFields \ {"entity_type"}}

\* state texts: every full name of the table in title case with surrounding
\* spaces, some in lower case, two-character texts, and texts that are neither
StateTexts ==
    {" " \o CharAt(k, 1) \o Lower(SliceFrom(k, 1)) \o " " : k \in DOMAIN STATE_MAPPING}
    \cup {"california", "new york", "district of columbia", "west virginia"}
    \cup {"ca", " ny ", "Tx", "ZZ", "12", "", " ", "T", "CAL", "Texas!"}

FormationDates ==
    {"", "2024-05-24", "05/24/2024", "2024/05/24", "not-a-date", "2023-02-30", "11/03/1999",
     " 2021-12-01 ", "2024-13-01", "24-05-2024", "2020-02-29", "2019/7/4"}

OtherCases ==
    {[BaseCase EXCEPT !.entity_name = n] : n \in {"Acme Corp", "Acme, Inc.", "Smith & Sons PLLC", "LLC",
                                                   "Smith & Sons", "O'Neil Bros."}}
    \cup {[BaseCase EXCEPT !.formation_date = x] : x \in FormationDates}
    \cup {[BaseCase EXCEPT !.closing_month = x] : x \in {"December", " dec ", "13"}}
    \cup {[BaseCase EXCEPT !.care_of_name = "Bob Ray", !.trade_name = "ACME"]}
    \cup {[BaseCase EXCEPT !.ssn_decrypted = x] : x \in {"12345", "987654321"}}
    \cup {[BaseCase EXCEPT !.entity_members = x] :
             x \in {<< >>, << << "first_name_1", "" >>, << "last_name_1", "Lee" >> >>,
                    << << "first_name_1", "Ann" >>, << "last_name_1", "Lee" >>, << "phone_1", "12345" >> >>}}

CaseRecords ==
    {[BaseCase EXCEPT !.entity_type = t, !.entity_state = s, !.entity_state_record_state = s] :
        t \in EntityTypes, s \in States}
    \cup {[BaseCase EXCEPT !.entity_type = "Non-Profit Corporation", !.business_description = b] :
             b \in Descriptions}
    \cup {[BaseCase EXCEPT !.mailing_address = m] : m \in Mailings}
    \cup {[BaseCase EXCEPT !.llc_details = l] : l \in LlcDetails}
    \cup {Without(BaseCase, a) : a \in AbsentSets}
    \cup {[BaseCase EXCEPT !.entity_state = s, !.entity_state_record_state = s] : s \in StateTexts}
    \cup OtherCases

\* the payload of the end-to-end case: LLC, state CA, two members, no mailing address
E2EPayload ==
    << << "entityProcessId", "rec1" >>, << "formType", "EIN" >>,
       << "legalName", "Acme Holdings LLC" >>, << "entityType", "LLC" >>,
       << "startDate", "2023-02-15" >>, << "principalActivity", "Consulting" >>,
       << "county", "Fresno" >>,
       << "physicalAddress", << << "physicalStreet", "1 Main St" >>, << "physicalCity", "Fresno" >>,
                                << "physicalState", "CA" >>, << "physicalZip", "93650" >> >> >>,
       << "responsibleParty", << << "firstName", "Ann" >>, << "lastName", "Lee" >>,
                                 << "phone", "5551234567" >>, << "ssnOrItinOrEin", "123-45-6789" >> >> >>,
       << "ownershipDetails", << << << "firstName", "ann" >>, << "lastName", "LEE" >>,
                                    << "ownershipPercentage", "100" >> >> >> >>,
       << "llcDetails", << << "numberOfMembers", "2" >> >> >> >>

FullMailing ==
    << "mailingAddress", << << "mailingStreet", "9 Oak Ave" >>, << "mailingCity", "Austin" >>,
                            << "mailingState", "TX" >>, << "mailingZip", "78701" >> >> >>

\* the payload without the key k
DictWithout(d, k) == SelectSeq(d, LAMBDA p : p[1] # k)

Payloads ==
    {E2EPayload,
     E2EPayload \o << FullMailing >>,
     DictWithout(E2EPayload, "ownershipDetails") \o << FullMailing >>,
     DictWithout(E2EPayload, "entityType") \o << FullMailing >>,
     DictWithout(E2EPayload, "entityProcessId"),
     DictWithout(E2EPayload, "formType"),
     DictWithout(E2EPayload, "formType") \o << << "formType", "SS4" >> >>}

\* a request: whether its Authorization header is the API key, and its body
Requests ==
    {[authorized |-> a, body |-> "dict", payload |-> p] : a \in BOOLEAN, p \in Payloads}
    \cup {[authorized |-> a, body |-> b, payload |-> << >>] : a \in BOOLEAN, b \in {"invalid", "nondict"}}

NoRequest == [authorized |-> FALSE, body |-> "none", payload |-> << >>]

(***************************************************************************)
(* State.                                                                  *)
(***************************************************************************)
VARIABLES
    pc,          \* position of the call being served
    served,      \* number of calls completed
    caller,      \* "http", "direct" or "none"
    request,     \* the HTTP request being served
    data,        \* the CaseData of the run
    prog,        \* navigate_and_fill_form(data)
    download,    \* the download request answered since the last call, and its response
    ip,          \* index in prog of the next statement
    json_status, \* json_data["response_status"]
    driver,      \* self.driver: "none", "open", "closed" or "quit_failed"
    sessions,    \* browser sessions opened by the run
    error,       \* message of the exception that aborted the run, or NULL
    mustFailed,  \* a step whose failure raises has failed
    allOk,       \* no browser, file or storage call of the run has failed
    lastOp,      \* the latest browser interaction and what it returned
    journal,     \* radio, dropdown, raw-typing and Continue steps issued, in order
    schemes,     \* id schemes the identity fields of the page in the browser were filled under
    png_filename, \* the file name run_automation gives to capture_page_as_png
    trail,       \* calls capture_page_as_png has made, in order
    png,         \* value returned by capture_page_as_png
    peer,        \* a second run while it is in capture_page_as_png together with this one
    azure_blob_url, \* value returned by upload_screenshot_to_azure_sync
    files,       \* files the run has written and not removed
    blobs,       \* names of the blobs the run has stored, in order
    handed,      \* response_status of each record given to _save_json_data_sync
    retval,      \* the tuple run_automation returns
    response     \* the HTTP response

vars ==
    << pc, served, caller, request, data, prog, download, ip, json_status, driver, sessions,
       error, mustFailed, allOk, lastOp, journal, schemes, png_filename, trail, png,
       peer,
       azure_blob_url, files, blobs, handed, retval, response >>

callVars == << caller, request, data, prog, download >>
browserVars == << lastOp, journal, schemes >>
captureVars == << png_filename, trail, peer >>
outputVars == << captureVars, png, azure_blob_url, files, blobs, handed, retval, response >>

NoOp == [op |-> "none", target |-> "", value |-> "", ok |-> TRUE, calls |-> << >>]
NoPeer == [stage |-> "idle", filename |-> ""]
NoResponse == [status |-> 0, detail |-> "", body |-> << >>]
NoDownload == [record_id |-> "", listing |-> {}, status |-> 0, detail |-> "", file |-> ""]
Response(status, detail) == [status |-> status, detail |-> detail, body |-> << >>]

Init ==
    /\ pc = "idle"
    /\ served = 0
    /\ caller = "none"
    /\ request = NoRequest
    /\ data = CaseData(NULL)
    /\ prog = << >>
    /\ ip = 0
    /\ json_status = NULL
    /\ driver = "none"
    /\ sessions = 0
    /\ error = NULL
    /\ mustFailed = FALSE
    /\ allOk = TRUE
    /\ download = NoDownload
    /\ lastOp = NoOp
    /\ journal = << >>
    /\ schemes = {}
    /\ png_filename = ""
    /\ trail = << >>
    /\ peer = NoPeer
    /\ png = NoneVal
    /\ azure_blob_url = NULL
    /\ files = {}
    /\ blobs = << >>
    /\ handed = << >>
    /\ retval = << >>
    /\ response = NoResponse

\* a fresh IRSEINAutomation and a fresh run
FreshRun ==
    /\ ip' = 0
    /\ json_status' = NULL
    /\ driver' = "none"
    /\ sessions' = 0
    /\ error' = NULL
    /\ mustFailed' = FALSE
    /\ allOk' = TRUE
    /\ lastOp' = NoOp
    /\ journal' = << >>
    /\ schemes' = {}
    /\ download' = NoDownload
    /\ png_filename' = ""
    /\ trail' = << >>
    /\ peer' = NoPeer
    /\ png' = NoneVal
    /\ azure_blob_url' = NULL
    /\ files' = {}
    /\ blobs' = << >>
    /\ handed' = << >>
    /\ retval' = << >>

(***************************************************************************)
(* run_irs_ein_endpoint, up to the call of run_automation.                 *)
(***************************************************************************)
required_fields == {"entityProcessId", "formType"}

\* the response the endpoint gives before any run, or NoResponse
\* an endpoint that reads and validates the payload before it looks at the header
EarlyResponseAuthLast(req) ==
    IF req.body = "invalid" THEN Response(500, "Internal server error: invalid JSON")
    ELSE IF req.body # "dict" THEN Response(400, "Invalid payload format - expected JSON object")
    ELSE IF \E f \in required_fields : ~DictHas(req.payload, f)
         THEN Response(400, "Missing required fields")
    ELSE IF DictGet(req.payload, "formType", NULL) # "EIN"
         THEN Response(400, "Invalid formType, must be 'EIN'")
    ELSE IF ~req.authorized THEN Response(401, "Invalid API key")
    ELSE IF ~CaseDataValid(map_form_automation_data(req.payload))
         THEN Response(500, "Internal server error: validation error for CaseData")
    ELSE NoResponse

EarlyResponse(req) ==
    IF ~req.authorized THEN Response(401, "Invalid API key")
    ELSE IF req.body = "invalid" THEN Response(500, "Internal server error: invalid JSON")
    ELSE IF req.body # "dict" THEN Response(400, "Invalid payload format - expected JSON object")
    ELSE IF \E f \in required_fields : ~DictHas(req.payload, f)
         THEN Response(400, "Missing required fields")
    ELSE IF DictGet(req.payload, "formType", NULL) # "EIN"
         THEN Response(400, "Invalid formType, must be 'EIN'")
    ELSE IF ~CaseDataValid(map_form_automation_data(req.payload))
         THEN Response(500, "Internal server error: validation error for CaseData")
    ELSE NoResponse

HttpReceive ==
    /\ pc = "idle"
    /\ served < MaxCalls
    /\ \E req \in Requests :
        /\ FreshRun
        /\ caller' = "http"
        /\ request' = req
        /\ IF EarlyResponse(req) # NoResponse
           THEN /\ response' = EarlyResponse(req)
                /\ data' = CaseData(NULL)
                /\ prog' = << >>
                /\ pc' = "done"
                /\ served' = served + 1
           ELSE /\ response' = NoResponse
                /\ data' = map_form_automation_data(req.payload)
                /\ prog' = navigate_and_fill_form(data')
                /\ pc' = "init_driver"
                /\ served' = served

\* int(time.time()) of this run, and of the other run: the same second or the next
Now == "1700000000"
Timestamps == {Now, "1700000001"}

\* the static directory as a download finds it: screenshots the runs served so
\* far, and the processes before this one, have saved for these records
ListedIds == {"rec1", "rec1_2", "rec2"}
Listings == SUBSET {png_filename_of(id, now) : id \in ListedIds, now \in Timestamps}

\* GET /download-screenshot/{record_id}, between two calls of the automation
Download ==
    /\ pc = "idle"
    /\ pc' = "downloaded"
    /\ \E record_id \in ListedIds, listing \in Listings :
        LET r == download_screenshot(record_id, listing)
        IN  download' = [record_id |-> record_id, listing |-> listing,
                         status |-> r.status, detail |-> r.detail, file |-> r.file]
    /\ UNCHANGED << served, caller, request, data, prog, ip, json_status, driver,
                    sessions, error, mustFailed, allOk, browserVars, outputVars >>

\* run_automation called with a CaseData record
DirectCall ==
    /\ pc = "idle"
    /\ served < MaxCalls
    /\ \E d \in CaseRecords :
        /\ FreshRun
        /\ caller' = "direct"
        /\ request' = NoRequest
        /\ response' = NoResponse
        /\ data' = d
        /\ prog' = navigate_and_fill_form(d)
        /\ pc' = "init_driver"
    /\ UNCHANGED served

(***************************************************************************)
(* run_automation.                                                         *)
(***************************************************************************)
DriverOutcomes == {"ready", "chrome_fails", "script_fails"}

\* an exception reaches the except clause of run_automation
Abort(msg) ==
    /\ error' = msg
    /\ pc' = "except"

\* self.initialize_driver(): uc.Chrome(...) throws before a session exists, or
\* the session opens and the first script throws, or the driver is ready
InitializeDriver ==
    /\ pc = "init_driver"
    /\ \E o \in DriverOutcomes :
        /\ driver' = IF o = "chrome_fails" THEN "none" ELSE "open"
        /\ sessions' = IF o = "chrome_fails" THEN sessions ELSE sessions + 1
        /\ allOk' = (allOk /\ o = "ready")
        /\ mustFailed' = (mustFailed \/ o # "ready")
        /\ IF o = "ready"
           THEN /\ pc' = "navigate"
                /\ ip' = 1
                /\ error' = error
           ELSE /\ Abort("Failed to initialize WebDriver")
                /\ ip' = ip
    /\ UNCHANGED << served, callVars, json_status, browserVars, outputVars >>

\* the statement of navigate_and_fill_form about to run
Current == prog[ip]

AtStatement(op) ==
    /\ pc = "navigate"
    /\ ip \in 1..Len(prog)
    /\ Current.op = op

\* control that goes on to the next statement whatever the primitive returned
AdvanceRegardless(ins, ok) ==
    LET next == ip + 1 + (IF ok \/ ins.failSkip = -1 THEN ins.okSkip ELSE ins.failSkip)
    IN  /\ ip' = next
        /\ error' = error
        /\ pc' = IF next > Len(prog) THEN "final_click" ELSE "navigate"

\* control when a failing primitive raises instead of returning False
AdvanceOrRaise(ins, ok) ==
    IF ~ok
    THEN /\ Abort("browser error")
         /\ ip' = ip
    ELSE /\ ip' = ip + 1 + ins.okSkip
         /\ error' = error
         /\ pc' = IF ip + 1 + ins.okSkip > Len(prog) THEN "final_click" ELSE "navigate"

\* control after a statement whose primitive returned ok
Advance(ins, ok) ==
    IF ~ok /\ ins.failSkip = -1
    THEN /\ Abort(ins.msg)
         /\ ip' = ip
    ELSE LET next == ip + 1 + (IF ok THEN ins.okSkip ELSE ins.failSkip)
         IN  /\ ip' = next
             /\ error' = error
             /\ pc' = IF next > Len(prog) THEN "final_click" ELSE "navigate"

\* statement ins returned ok: note the failure of a step that must succeed
Note(ins, ok) == mustFailed' = (mustFailed \/ (~ok /\ ins.failSkip = -1))

\* the identity fields of the responsible-party page: first id, second id
IdentityFields ==
    { << "responsiblePartyFirstName", "applicantFirstName" >>,
      << "responsiblePartyLastName", "applicantLastName" >>,
      << "responsiblePartySSN3", "applicantSSN3" >>,
      << "responsiblePartySSN2", "applicantSSN2" >>,
      << "responsiblePartySSN4", "applicantSSN4" >> }

\* the schemes in use once statement ins has returned ok: a filled identity
\* field adds the scheme of its id; a Continue click loads the next page and a
\* failure that raises ends the filling
schemes_after(ins, ok) ==
    IF ~ok /\ ins.failSkip = -1 THEN {}
    ELSE IF ins.op = "click" THEN {}
    ELSE IF ins.op = "fill" /\ ok /\ \E f \in IdentityFields : ins.target = f[1]
         THEN schemes \cup {"responsibleParty"}
    ELSE IF ins.op = "fill" /\ ok /\ \E f \in IdentityFields : ins.target = f[2]
         THEN schemes \cup {"applicant"}
    ELSE schemes

Journalled(ins) == ins.op \in {"radio", "dropdown", "type", "click"}

\* the browser was used for statement ins, which made the calls and returned ok
InteractWith(ins, ok, calls) ==
    /\ lastOp' = [op |-> ins.op, target |-> ins.target, value |-> ins.value, ok |-> ok,
                  calls |-> calls]
    /\ journal' = IF Journalled(ins) /\ ins.failSkip = -1
                  THEN Append(journal, << ins.op, ins.target, ins.value >>)
                  ELSE journal
    /\ schemes' = schemes_after(ins, ok)
    /\ allOk' = (allOk /\ ok)

Interact(ins, ok) == InteractWith(ins, ok, << >>)

NavFrame == UNCHANGED << served, callVars, json_status, driver, sessions, outputVars >>

\* a statement that raises by itself
NavRaise ==
    /\ AtStatement("raise")
    /\ Advance(Current, FALSE)
    /\ Note(Current, FALSE)
    /\ UNCHANGED << browserVars, allOk >>
    /\ NavFrame

\* self.driver.get(url), self.wait.until(...)
NavWait ==
    /\ AtStatement("get") \/ AtStatement("wait")
    /\ \E ok \in BOOLEAN :
        /\ Interact(Current, ok)
        /\ Advance(Current, ok)
        /\ Note(Current, ok)
    /\ NavFrame

\* the member-count field: wait, scroll, clear, send_keys; any of them may throw
NavType ==
    /\ AtStatement("type")
    /\ \E ok \in BOOLEAN :
        /\ Interact(Current, ok)
        /\ Advance(Current, ok)
        /\ Note(Current, ok)
    /\ NavFrame

\* representative browser behaviours for one click_button call
NotFound == Attempt(FALSE, {})
AllThrow == Attempt(TRUE, ClickedBy)
ClickOracles ==
    { [i \in 1..(DefaultRetries + 1) |-> Attempt(TRUE, {})],
      [i \in 1..(DefaultRetries + 1) |-> Attempt(TRUE, {"click", "pointer"})],
      [i \in 1..(DefaultRetries + 1) |-> IF i = 1 THEN AllThrow ELSE Attempt(TRUE, {"js"})],
      [i \in 1..(DefaultRetries + 1) |->
            IF i > DefaultRetries THEN Attempt(TRUE, {"click", "js"})
            ELSE IF i = 2 THEN AllThrow ELSE NotFound],
      [i \in 1..(DefaultRetries + 1) |-> IF i \in {2, 3} THEN AllThrow ELSE NotFound] }

NavClick ==
    /\ AtStatement("click")
    /\ \E attempts \in ClickOracles :
        LET r == click_button(attempts, DefaultRetries)
        IN  /\ InteractWith(Current, r.ok, r.calls)
            /\ Advance(Current, r.ok)
            /\ Note(Current, r.ok)
    /\ NavFrame

NavRadio ==
    /\ AtStatement("radio")
    /\ \E o \in RadioOutcomesFor(Current.target) :
        LET ok == select_radio(Current.target, o)
        IN  /\ InteractWith(Current, ok, radio_calls(o))
            /\ Advance(Current, ok)
            /\ Note(Current, ok)
    /\ NavFrame

NavFill ==
    /\ AtStatement("fill")
    /\ \E o \in FillOutcomes :
        LET r == fill_field(Current.value, o)
        IN  /\ IF r.touched
               THEN Interact(Current, r.ok)
               ELSE UNCHANGED << browserVars, allOk >>
            /\ Advance(Current, r.ok)
            /\ Note(Current, r.ok)
    /\ NavFrame

NavDropdown ==
    /\ AtStatement("dropdown")
    /\ \E o \in DropdownOutcomes :
        LET ok == select_dropdown(Current.value, o)
        IN  /\ Interact(Current, ok)
            /\ Advance(Current, ok)
            /\ Note(Current, ok)
    /\ NavFrame

\* what the browser does in each round the block could make: any outcome in
\* the first, a selection in the later ones
FiscalOracles ==
    {[i \in 1..(fiscal_retries + 1) |-> IF i = 1 THEN o ELSE "selected"] : o \in FiscalOutcomes}

NavFiscal ==
    /\ AtStatement("fiscal")
    /\ \E outcomes \in FiscalOracles :
        LET r == select_fiscal_month(outcomes)
        IN  /\ InteractWith(Current, r.ok, r.calls)
            /\ Advance(Current, r.ok)
            /\ Note(Current, r.ok)
    /\ NavFrame

\* the click on Continue after navigate_and_fill_form has returned
FinalContinue ==
    /\ pc = "final_click"
    /\ \E attempts \in ClickOracles :
        LET r == click_button(attempts, DefaultRetries)
            ins == Must("click", ContinueButton, "", "Failed to continue after receive EIN selection")
        IN  /\ InteractWith(ins, r.ok, r.calls)
            /\ Note(ins, r.ok)
            /\ IF r.ok
               THEN /\ json_status' = "success"
                    /\ pc' = "capture"
                    /\ error' = error
               ELSE /\ Abort(ins.msg)
                    /\ json_status' = json_status
    /\ UNCHANGED << served, callVars, ip, driver, sessions, outputVars >>

\* the other run's file name: any record id, any second
PeerFilenames == {png_filename_of(id, now) : id \in {"rec1", "rec2"}, now \in Timestamps}

\* the other run enters capture_page_as_png and writes its temporary PDF
PeerCapture ==
    /\ pc = "capture"
    /\ peer.stage = "idle"
    /\ \E f \in PeerFilenames : peer' = [stage |-> "convert", filename |-> f]
    /\ UNCHANGED << pc, served, callVars, ip, json_status, driver, sessions, error, mustFailed,
                    allOk, browserVars, png_filename, trail, png, azure_blob_url, files,
                    blobs, handed, retval, response >>

\* the other run leaves capture_page_as_png
PeerReturn ==
    /\ pc \in {"capture", "convert"}
    /\ peer.stage = "convert"
    /\ peer' = NoPeer
    /\ UNCHANGED << pc, served, callVars, ip, json_status, driver, sessions, error, mustFailed,
                    allOk, browserVars, png_filename, trail, png, azure_blob_url, files,
                    blobs, handed, retval, response >>

\* what capture_page_as_png does up to `logger.info(f"PDF saved: {pdf_path}")`
WriteOutcomes == {"print_fails", "pdf_open_fails", "pdf_write_fails", "pdf_written"}

\* the calls made up to there
WriteTrail(o) ==
    IF o = "print_fails" THEN << "printToPDF" >>
    ELSE IF o = "pdf_open_fails" THEN << "printToPDF", "open_pdf" >>
    ELSE << "printToPDF", "open_pdf", "write_pdf" >>

\* the finally clause: os.remove(pdf_path) when the file exists
RemoveTrail(exists) == IF exists THEN << "remove_pdf" >> ELSE << >>

\* png_filename = f"print_{data.record_id}_{int(time.time())}.png", then
\* capture_page_as_png up to the written temporary PDF (Page.printToPDF is the
\* browser interaction); when that fails, its except and finally clauses
Capture ==
    /\ pc = "capture"
    /\ \E o \in WriteOutcomes, now \in {Now}, removed \in BOOLEAN :
        LET filename == png_filename_of(data.record_id, now)
        IN  /\ png_filename' = filename
            /\ lastOp' = [NoOp EXCEPT !.op = "print", !.ok = (o # "print_fails")]
            /\ IF o = "pdf_written"
               THEN /\ trail' = WriteTrail(o)
                    /\ files' = files \cup {temp_pdf_of(filename)}
                    /\ pc' = "convert"
                    /\ UNCHANGED << png, allOk, peer >>
               ELSE /\ trail' = WriteTrail(o) \o RemoveTrail(PdfWritten(o))
                    /\ files' = files \cup (IF PdfWritten(o) /\ ~removed
                                             THEN {temp_pdf_of(filename)} ELSE {})
                    /\ png' = capture_page_as_png(filename, o)
                    /\ allOk' = FALSE
                    /\ peer' = NoPeer
                    /\ pc' = "upload"
    /\ UNCHANGED << served, callVars, ip, json_status, driver, sessions, error,
                    mustFailed, journal, schemes, azure_blob_url, blobs, handed, retval, response >>

\* what capture_page_as_png does from `import fitz` on
ConvertOutcomes == {"convert_fails", "saved"}

\* capture_page_as_png from the conversion to its return; the finally clause
\* removes the temporary PDF unless os.remove throws
Convert ==
    /\ pc = "convert"
    /\ \E o \in ConvertOutcomes, removed \in BOOLEAN :
        LET value == capture_page_as_png(png_filename, o)
        IN  /\ png' = value
            /\ trail' = trail \o << "fitz_open" >>
                              \o (IF o = "saved" THEN << "save_png" >> ELSE << >>)
                              \o RemoveTrail(PdfWritten(o))
            /\ files' = (files \cup (IF o = "saved" THEN {value.items[1]} ELSE {}))
                           \ (IF removed THEN {temp_pdf_of(png_filename)} ELSE {})
            /\ allOk' = (allOk /\ o = "saved" /\ removed)
    /\ peer' = NoPeer
    /\ pc' = "upload"
    /\ UNCHANGED << served, callVars, ip, json_status, driver, sessions, error,
                    mustFailed, browserVars, png_filename, azure_blob_url, blobs,
                    handed, retval, response >>

\* `if png_path: azure_blob_url = self.upload_screenshot_to_azure_sync(...)`
Upload ==
    /\ pc = "upload"
    /\ \E storage \in StorageOutcomes :
        LET legal_name == OrElse(data.entity_name, "UnknownEntity")
            url == IF ValTruthy(png)
                   THEN upload_screenshot_to_azure_sync(data.record_id, legal_name, png, files, storage)
                   ELSE NULL
        IN  /\ azure_blob_url' = url
            /\ blobs' = IF url # NULL
                        THEN Append(blobs, screenshot_blob_name(data.record_id, legal_name))
                        ELSE blobs
            /\ allOk' = (allOk /\ storage = "accepts")
    /\ pc' = "save"
    /\ UNCHANGED << served, callVars, ip, json_status, driver, sessions, error,
                    mustFailed, browserVars, captureVars, png, files, handed, retval, response >>

\* a save that hands over the record as it was before its status was set
SaveWithStaleStatus(status, storage) ==
    /\ handed' = Append(handed, json_status)
    /\ blobs' = IF _save_json_data_sync(data.entity_name, storage)
                THEN Append(blobs, json_blob_name(data.record_id, data.entity_name))
                ELSE blobs
    /\ allOk' = (allOk /\ storage = "accepts")

\* the outcome record is handed to _save_json_data_sync with response_status
\* status; it is stored unless building its blob name or the upload throws
SaveWith(status, storage) ==
    /\ handed' = Append(handed, status)
    /\ blobs' = IF _save_json_data_sync(data.entity_name, storage)
                THEN Append(blobs, json_blob_name(data.record_id, data.entity_name))
                ELSE blobs
    /\ allOk' = (allOk /\ storage = "accepts")

\* a run in which a record that storage rejects is an exception
SaveOutcomeOrRaise ==
    /\ pc = "save"
    /\ \E storage \in StorageOutcomes :
        /\ SaveWith(json_status, storage)
        /\ IF storage = "accepts"
           THEN /\ retval' = << TRUE, "Form submitted successfully", png, azure_blob_url >>
                /\ pc' = "cleanup"
                /\ error' = error
           ELSE /\ Abort("Failed to upload JSON data to Azure Blob Storage")
                /\ retval' = retval
    /\ UNCHANGED << served, callVars, ip, json_status, driver, sessions,
                    mustFailed, browserVars, captureVars, png, azure_blob_url, files, response >>

\* self._save_json_data_sync(json_data); return True, ..., png_path, azure_blob_url
SaveOutcome ==
    /\ pc = "save"
    /\ \E storage \in StorageOutcomes : SaveWith(json_status, storage)
    /\ retval' = << TRUE, "Form submitted successfully", png, azure_blob_url >>
    /\ pc' = "cleanup"
    /\ UNCHANGED << served, callVars, ip, json_status, driver, sessions, error,
                    mustFailed, browserVars, captureVars, png, azure_blob_url, files, response >>

\* an except clause that stores and returns without marking the record failed
HandleAbortUnmarked ==
    /\ pc = "except"
    /\ json_status' = json_status
    /\ \E storage \in StorageOutcomes : SaveWith(json_status, storage)
    /\ retval' = << FALSE, error, NoneVal, NULL >>
    /\ pc' = "cleanup"
    /\ UNCHANGED << served, callVars, ip, driver, sessions, error,
                    mustFailed, browserVars, captureVars, png, azure_blob_url, files, response >>

\* the except clause of run_automation
HandleAbort ==
    /\ pc = "except"
    /\ json_status' = "fail"
    /\ \E storage \in StorageOutcomes : SaveWith("fail", storage)
    /\ retval' = << FALSE, error, NoneVal, NULL >>
    /\ pc' = "cleanup"
    /\ UNCHANGED << served, callVars, ip, driver, sessions, error,
                    mustFailed, browserVars, captureVars, png, azure_blob_url, files, response >>

\* a cleanup that runs only at the end of the try block, not in a finally clause
CleanupAfterSuccess ==
    /\ pc = "cleanup"
    /\ IF driver # "none" /\ error = NULL
       THEN \E quit \in {"closed", "quit_failed"} : driver' = quit
       ELSE driver' = driver
    /\ pc' = "returned"
    /\ UNCHANGED << served, callVars, ip, json_status, sessions, error, mustFailed,
                    allOk, browserVars, outputVars >>

\* the finally clause: FormAutomationBase.cleanup; driver.quit() may throw
Cleanup ==
    /\ pc = "cleanup"
    /\ IF driver # "none"
       THEN \E quit \in {"closed", "quit_failed"} : driver' = quit
       ELSE driver' = driver
    /\ pc' = "returned"
    /\ UNCHANGED << served, callVars, ip, json_status, sessions, error, mustFailed,
                    allOk, browserVars, outputVars >>

\* run_automation returns to a direct caller
ReturnToCaller ==
    /\ pc = "returned"
    /\ caller = "direct"
    /\ pc' = "done"
    /\ served' = served + 1
    /\ UNCHANGED << callVars, ip, json_status, driver, sessions, error, mustFailed,
                    allOk, browserVars, outputVars >>

\* `success, message, png_path, png_url, azure_blob_url = await ...`: unpacking
\* a tuple of another length raises ValueError, which the endpoint answers 500
Respond ==
    /\ pc = "returned"
    /\ caller = "http"
    /\ response' =
           IF Len(retval) # 5
           THEN Response(500, "Internal server error: not enough values to unpack (expected 5, got 4)")
           ELSE IF retval[1]
                THEN [status |-> 200, detail |-> "Form submitted successfully",
                      body |-> << data.record_id, retval[4], retval[5] >>]
                ELSE Response(500, retval[2])
    /\ pc' = "done"
    /\ served' = served + 1
    /\ UNCHANGED << callVars, ip, json_status, driver, sessions, error, mustFailed,
                    allOk, browserVars, captureVars, png, azure_blob_url, files, blobs, handed, retval >>

\* the call, or the download, has been answered: the next call is served by a
\* fresh IRSEINAutomation
NextCall ==
    /\ pc \in {"done", "downloaded"}
    /\ served < MaxCalls
    /\ pc' = "idle"
    /\ caller' = "none"
    /\ request' = NoRequest
    /\ data' = CaseData(NULL)
    /\ prog' = << >>
    /\ response' = NoResponse
    /\ FreshRun
    /\ UNCHANGED served

Next ==
    \/ HttpReceive
    \/ Download
    \/ DirectCall
    \/ InitializeDriver
    \/ NavRaise
    \/ NavWait
    \/ NavType
    \/ NavClick
    \/ NavRadio
    \/ NavFill
    \/ NavDropdown
    \/ NavFiscal
    \/ FinalContinue
    \/ Capture
    \/ Convert
    \/ PeerCapture
    \/ PeerReturn
    \/ Upload
    \/ SaveOutcome
    \/ HandleAbort
    \/ Cleanup
    \/ ReturnToCaller
    \/ Respond
    \/ NextCall

Spec == Init /\ [][Next]_vars


(***************************************************************************)
(* Properties of run_automation and of the endpoint.                       *)
(***************************************************************************)
Returned == pc \in {"cleanup", "returned", "done"} /\ Len(retval) = 4

\* C1: whenever a mandatory step fails (driver initialisation, a mandatory
\* fill/select/click of navigate_and_fill_form, or the final Continue click),
\* the run returns a tuple whose first element is False and whose two artifact
\* elements are None, and the record handed to storage has response_status "fail".
AbortReturnsFail ==
    (mustFailed /\ pc \in {"cleanup", "returned", "done"}) =>
        /\ Len(retval) = 4
        /\ retval[1] = FALSE
        /\ retval[3] = NoneVal
        /\ retval[4] = NULL
        /\ json_status = "fail"
        /\ handed = << "fail" >>

\* a run aborted in the middle of the form (the county field) has returned
AbortReturnsFailWitness ==
    /\ pc = "done"
    /\ mustFailed
    /\ sessions = 1
    /\ ip \in 1..Len(prog)
    /\ prog[ip].op = "fill"
    /\ retval[1] = FALSE
    /\ handed = << "fail" >>

\* C2: a run returns success (first element True, response_status "success")
\* only if every mandatory step of the navigation and the final Continue click
\* succeeded, and once a mandatory step has failed no further fill, select or
\* click is issued in that run: control goes to the except clause and on to
\* the return.
NoPartialSuccess ==
    /\ [](Returned /\ retval[1] = TRUE =>
            /\ ~mustFailed
            /\ error = NULL
            /\ ip = Len(prog) + 1
            /\ json_status = "success"
            /\ handed = << "success" >>)
    /\ [][(mustFailed /\ pc # "done") =>
            /\ lastOp' = lastOp
            /\ journal' = journal
            /\ ip' = ip
            /\ pc' \in {"except", "cleanup", "returned", "done"}]_vars

\* a run stopped by a mandatory click that failed after earlier steps succeeded
NoPartialSuccessWitness ==
    /\ pc = "done"
    /\ mustFailed
    /\ Len(journal) > 4
    /\ lastOp.op = "click"
    /\ ~lastOp.ok
    /\ journal[Len(journal)] = << lastOp.op, lastOp.target, lastOp.value >>
    /\ retval[1] = FALSE

\* the number of blobs stored under key
StoredUnder(key) == Cardinality({i \in 1..Len(blobs) : blobs[i] = key})

CaptureSaved == png.type = "tuple" /\ png.items[1] # NULL
CaptureFailed == png = TupleVal(NULL, NULL)

\* C3: in a run where navigation, the final Continue click and the capture all
\* succeed and storage accepts uploads, the screenshot is stored exactly once
\* under {record_id}/{sanitized legal name}EINScreenshot.png and the result
\* carries the resulting public URL, which is not None.
ScreenshotStoredOnce ==
    (pc = "done" /\ Returned /\ retval[1] = TRUE /\ CaptureSaved /\ allOk) =>
        LET key == screenshot_blob_name(data.record_id, OrElse(data.entity_name, "UnknownEntity"))
        IN  /\ StoredUnder(key) = 1
            /\ retval[4] # NULL
            /\ retval[4] = BLOB_ROOT \o key

\* C4: at the endpoint, a run that reports success is answered 200 with the
\* record id and the artifact URLs, and a run that reports an abort is answered
\* 500 with the run's failure reason as detail.
EndpointMapsOutcome ==
    (caller = "http" /\ pc = "done" /\ Len(retval) = 4) =>
        IF retval[1]
        THEN /\ response.status = 200
             /\ Len(response.body) = 3
             /\ response.body[1] = data.record_id
        ELSE /\ response.status = 500
             /\ response.detail = retval[2]

\* C5: when navigation and the final Continue click succeed but every capture
\* method fails, run_automation still returns True with response_status
\* "success", and the artifact path in the result is None.
CaptureFailureKeepsSuccess ==
    (Returned /\ ~mustFailed /\ error = NULL /\ CaptureFailed) =>
        /\ retval[1] = TRUE
        /\ json_status = "success"
        /\ handed = << "success" >>
        /\ retval[3] = NoneVal

\* C6: every run that opened a browser session has attempted driver.quit()
\* before it returns, on every exit path (success, abort at a mandatory step,
\* capture failure, persistence failure), and a run opens at most one session.
SessionAlwaysClosed ==
    /\ sessions <= 1
    /\ (sessions > 0) = (driver # "none")
    /\ (pc \in {"returned", "done"} /\ sessions > 0) => driver \in {"closed", "quit_failed"}

\* an aborted run that had opened its session has returned with the session closed
SessionAlwaysClosedWitness ==
    /\ pc = "done"
    /\ sessions = 1
    /\ mustFailed
    /\ Len(journal) > 0
    /\ driver = "closed"

InJournal(op, target) == \E i \in 1..Len(journal) : journal[i][1] = op /\ journal[i][2] = target

\* C7: the end-to-end request (category LLC, state "CA", member count "2", no
\* mailing address in the payload), with every browser interaction succeeding,
\* produces a run that visits the LLC member/state page, takes the
\* non-partnership-LLC branch, selects the mailing-address "no" radio and
\* finishes with response_status "success".
EndToEndCase ==
    (caller = "http" /\ pc = "done" /\ request.authorized /\ request.body = "dict"
        /\ request.payload = E2EPayload /\ allOk) =>
        /\ InJournal("type", "numbermem")
        /\ InJournal("dropdown", "state")
        /\ InJournal("radio", "radio_n")
        /\ InJournal("radio", "radioAnotherAddress_n")
        /\ json_status = "success"

\* C8: for every record with record_id set, None in any other field never
\* aborts the run: a run in which every browser interaction succeeds returns
\* success whatever subset of the optional fields is None.
AbsentFieldsNeverAbort ==
    (caller = "direct" /\ pc = "done" /\ allOk
        /\ \E a \in AbsentSets : data = Without(BaseCase, a)) =>
        /\ retval[1] = TRUE
        /\ json_status = "success"

\* C9: for every entity_type text, keys of the entity-type table or not, the
\* chain entity type -> category -> radio id resolves to a defined radio id:
\* no select is ever issued for the id None.
EntityTypeChainTotal ==
    /\ lastOp.op = "radio" => lastOp.target # NULL
    /\ \A i \in 1..Len(journal) : journal[i][1] = "radio" => journal[i][2] # NULL

SubTypeIds == {SUB_TYPE_BUTTON_MAPPING[k] : k \in DOMAIN SUB_TYPE_BUTTON_MAPPING} \cup {"other_option"}

\* entry e of the journal is a select of a sub-type radio
IsSubTypeSelect(e) == e[1] = "radio" /\ e[2] \in SubTypeIds

\* C10: in every run that passes the entity-type page (its Continue click is
\* the third interaction), the next interaction is the select of the sub-type
\* radio if and only if the mapped category is not in {LLC, Estate}, and no
\* sub-type radio is selected anywhere later; so for LLC and Estate none is
\* ever selected.
SubTypeIffNotLLCOrEstate ==
    Len(journal) >= 4 =>
        /\ IsSubTypeSelect(journal[4]) <=>
               mapped_type_of(data) \notin {"Limited Liability Company (LLC)", "Estate"}
        /\ \A i \in 5..Len(journal) : ~IsSubTypeSelect(journal[i])

\* a Corporation run selected its sub-type radio and went on past the page
SubTypeIffNotLLCOrEstateWitness ==
    /\ Len(journal) >= 6
    /\ mapped_type_of(data) = "Corporations"
    /\ journal[4] = << "radio", "corp", "" >>
    /\ lastOp.ok

IsContinueClick(e) == e[1] = "click" /\ e[2] = ContinueButton
IsNewBusinessSelect(e) == e[1] = "radio" /\ e[2] = "newbiz"

\* the number of Continue clicks journalled strictly between entries i and j
ContinuesBetween(i, j) ==
    Cardinality({k \in (i + 1)..(j - 1) : IsContinueClick(journal[k])})

\* C11: for every category outside {LLC, Estate}, exactly two Continue clicks
\* are issued between the select of the sub-type radio and the select of the
\* "new business" radio of the next page.
TwoContinuesAfterSubType ==
    \A j \in 5..Len(journal) :
        (IsSubTypeSelect(journal[4]) /\ IsNewBusinessSelect(journal[j])) =>
            ContinuesBetween(4, j) = 2

\* C12: the radio radio_n is selected if and only if the category is LLC and
\* the normalized state is one of AZ, CA, ID, LA, NV, NM, TX, WA, WI; when it
\* is selected, the next two interactions are Continue clicks and the one after
\* them is the select of the "new business" radio.
NonPartnershipRadioRule ==
    LET applies == /\ mapped_type_of(data) = "Limited Liability Company (LLC)"
                   /\ state_value_of(data) \in {"AZ", "CA", "ID", "LA", "NV", "NM", "TX", "WA", "WI"}
    IN  /\ InJournal("radio", "radio_n") => applies
        /\ (InJournal("radio", "newbiz") /\ applies) => InJournal("radio", "radio_n")
        /\ \A i \in 1..Len(journal) :
              (journal[i][1] = "radio" /\ journal[i][2] = "radio_n") =>
                  /\ Len(journal) >= i + 1 => IsContinueClick(journal[i + 1])
                  /\ Len(journal) >= i + 2 => IsContinueClick(journal[i + 2])
                  /\ Len(journal) >= i + 3 => IsNewBusinessSelect(journal[i + 3])

\* a Nevada LLC run selected radio_n, clicked Continue twice and reached "new business"
NonPartnershipRadioRuleWitness ==
    /\ data.entity_state = "NV"
    /\ \E i \in 1..Len(journal) :
          /\ journal[i] = << "radio", "radio_n", "" >>
          /\ Len(journal) >= i + 3
          /\ IsNewBusinessSelect(journal[i + 3])
    /\ pc = "done"
    /\ retval[1] = TRUE

\* text v has a character that is not whitespace
NonBlank(v) == \E i \in 1..Len(v) : CharAt(v, i) \notin Whitespace

IsMailingRadio(e) == e[1] = "radio" /\ e[2] \in {"radioAnotherAddress_y", "radioAnotherAddress_n"}

\* C13: on the mailing-address decision the radio radioAnotherAddress_y is
\* selected if and only if at least one of the four mailing sub-fields (street,
\* city, state, ZIP) is non-blank after trimming; otherwise, also for an
\* all-blank or absent mailing object, radioAnotherAddress_n is selected; a
\* run selects exactly one of the two.
MailingRadioRule ==
    LET ma == data.mailing_address
        some == /\ ~IsNoneDict(ma)
                /\ \E p \in 1..Len(ma) :
                      /\ ma[p][1] \in {"mailingStreet", "mailingCity", "mailingState", "mailingZip"}
                      /\ NonBlank(ma[p][2])
        selects == {i \in 1..Len(journal) : IsMailingRadio(journal[i])}
    IN  /\ InJournal("radio", "radioAnotherAddress_y") => some
        /\ InJournal("radio", "radioAnotherAddress_n") => ~some
        /\ Cardinality(selects) <= 1
        /\ InJournal("radio", "radioTrucking_n") => Cardinality(selects) = 1

\* a run whose mailing object holds only blank sub-fields selected the "no" radio and completed
MailingRadioRuleWitness ==
    /\ ~IsNoneDict(data.mailing_address)
    /\ Len(data.mailing_address) = 4
    /\ InJournal("radio", "radioAnotherAddress_n")
    /\ pc = "done"
    /\ retval[1] = TRUE

\* text s names table entry k: equal to it up to letter case and surrounding whitespace
NamesState(s, k) == Upper(Strip(s)) = k

IsTwoLetters(s) == Len(s) = 2 /\ \A i \in 1..2 : CharAt(s, i) \in Lowers \cup Uppers

\* the state code the text s stands for: two-letter texts are returned unchanged
StateCodeUnchanged(s) ==
    IF s = NULL \/ s = "" THEN "TX"
    ELSE IF \E k \in DOMAIN STATE_MAPPING : NamesState(s, k)
         THEN STATE_MAPPING[CHOOSE k \in DOMAIN STATE_MAPPING : NamesState(s, k)]
    ELSE IF IsTwoLetters(s) THEN s
    ELSE "TX"

\* the state code the text s stands for: texts of two characters after trimming
\* are returned trimmed and in upper case
StateCodeUpperCased(s) ==
    IF s = NULL \/ s = "" THEN "TX"
    ELSE IF \E k \in DOMAIN STATE_MAPPING : NamesState(s, k)
         THEN STATE_MAPPING[CHOOSE k \in DOMAIN STATE_MAPPING : NamesState(s, k)]
    ELSE IF Len(Strip(s)) = 2 THEN Upper(Strip(s))
    ELSE "TX"

\* the value just selected in the physical-state dropdown is f of the record's state
PhysicalStateIs(f(_)) ==
    (lastOp.op = "dropdown" /\ lastOp.target = "physicalAddressState") =>
        lastOp.value = f(data.entity_state)

MentionsWord(d, w) ==
    \E i \in 1..(Len(d) - Len(w) + 1) : Lower(SubSeq(d, i, i + Len(w) - 1)) = w

\* C15: for entity type "Non-Profit Corporation" the sub-type radio selected is
\* 'nonprofit' (sub-type "Non-Profit/Tax-Exempt Organization") if and only if
\* the business description, compared case-insensitively, contains one of
\* non-profit, nonprofit, charity, charitable, 501(c), tax-exempt; otherwise,
\* also for an absent description, it is 'other_option' (sub-type "Other").
NonProfitSubTypeRule ==
    (data.entity_type = "Non-Profit Corporation" /\ Len(journal) = 4 /\ lastOp.op = "radio") =>
        LET d == data.business_description
            mentions == /\ d # NULL
                        /\ \E w \in {"non-profit", "nonprofit", "charity", "charitable", "501(c)", "tax-exempt"} :
                              MentionsWord(d, w)
        IN  /\ journal[4] = << "radio", lastOp.target, "" >>
            /\ lastOp.target = IF mentions THEN "nonprofit" ELSE "other_option"
            /\ sub_type_of(data) = IF mentions THEN "Non-Profit/Tax-Exempt Organization" ELSE "Other"

\* a non-profit run with a description in capitals selected 'nonprofit' and completed
NonProfitSubTypeRuleWitness ==
    /\ data.entity_type = "Non-Profit Corporation"
    /\ data.business_description = "A NON-PROFIT group"
    /\ Len(journal) > 4
    /\ journal[4] = << "radio", "nonprofit", "" >>
    /\ pc = "done"
    /\ retval[1] = TRUE

IsMonthSelect == lastOp.op = "dropdown" /\ lastOp.target = "BUSINESS_OPERATIONAL_MONTH_ID"
IsYearFill == lastOp.op = "fill" /\ lastOp.target = "BUSINESS_OPERATIONAL_YEAR_ID"

\* formation dates with the month and year they stand for under the formats
\* YYYY-MM-DD, MM/DD/YYYY, YYYY/MM/DD, or 6 and 2024 when none applies
KnownDates ==
    {<< "2024-05-24", "5", "2024" >>, << "05/24/2024", "5", "2024" >>, << "2024/05/24", "5", "2024" >>,
     << "11/03/1999", "11", "1999" >>, << " 2021-12-01 ", "12", "2021" >>, << "2020-02-29", "2", "2020" >>,
     << "2019/7/4", "7", "2019" >>,
     << "not-a-date", "6", "2024" >>, << "2023-02-30", "6", "2024" >>, << "2024-13-01", "6", "2024" >>,
     << "24-05-2024", "6", "2024" >>}

\* C16: parse_formation_date tries YYYY-MM-DD, MM/DD/YYYY, YYYY/MM/DD in that
\* order and returns the month and year of the first format that parses:
\* "2024-05-24" and "05/24/2024" give (5, 2024), and a text that parses under
\* no format gives (6, 2024).
FormationDateParsed ==
    \A c \in KnownDates :
        data.formation_date = c[1] =>
            /\ IsMonthSelect => lastOp.value = c[2]
            /\ IsYearFill => lastOp.value = c[3]

\* a run typed the year of a date given as MM/DD/YYYY after selecting its month
FormationDateParsedWitness ==
    /\ data.formation_date = "11/03/1999"
    /\ IsYearFill
    /\ lastOp.value = "1999"
    /\ lastOp.ok
    /\ \E i \in 1..Len(journal) : journal[i] = << "dropdown", "BUSINESS_OPERATIONAL_MONTH_ID", "11" >>

UnparsableDates == {"not-a-date", "2023-02-30", "2024-13-01", "24-05-2024"}

\* C17: in a run whose record has no formation date or an unparsable one, the
\* formation month selected in the dropdown is 6 and the formation year typed
\* is 2024.
AbsentDateGivesJune ==
    (data.formation_date = NULL \/ data.formation_date \in UnparsableDates) =>
        /\ IsMonthSelect => lastOp.value = "6"
        /\ IsYearFill => lastOp.value = "2024"

IsMemberCountType == lastOp.op = "type" /\ lastOp.target = "numbermem"

\* the text t is the decimal form of an integer >= 1
IsPositiveIntegerText(t) ==
    /\ t # ""
    /\ \A i \in 1..Len(t) : CharAt(t, i) \in Digits
    /\ CharAt(t, 1) # "0"

\* member counts a caller may give, with the count to be typed
KnownMemberCounts ==
    {<< "3", "3" >>, << "12", "12" >>, << " 7 ", "7" >>, << "1_0", "10" >>,
     << "0", "1" >>, << "-2", "1" >>,
     << "abc", "1" >>, << "2.5", "1" >>, << "", "1" >>, << NULL, "1" >>}

\* C18: the LLC member count typed on the LLC page is always an integer >= 1:
\* a numeric value n >= 1 is typed as n, a numeric value below 1 is typed as 1,
\* and a non-numeric or absent value is typed as 1 without aborting the run
\* ("0" gives 1, "abc" gives 1, "3" gives 3).
MemberCountTyped ==
    IsMemberCountType =>
        /\ IsPositiveIntegerText(lastOp.value)
        /\ error = NULL \/ ~lastOp.ok
        /\ IsNoneDict(data.llc_details) => lastOp.value = "1"
        /\ \A c \in KnownMemberCounts :
              (~IsNoneDict(data.llc_details) /\ data.llc_details = << << "number_of_members", c[1] >> >>) =>
                  lastOp.value = c[2]

\* a run given the member count "0" typed 1 and went on to completion
MemberCountTypedWitness ==
    /\ data.llc_details = << << "number_of_members", "0" >> >>
    /\ \E i \in 1..Len(journal) : journal[i] = << "type", "numbermem", "1" >>
    /\ pc = "done"
    /\ retval[1] = TRUE

IsLegalNameFill == lastOp.op = "fill" /\ lastOp.target = "businessOperationalLegalName"

\* C19: business-name cleanup gives "Acme" for "Acme Corp" and "Acme" for
\* "Acme, Inc.", and for a name with no matching suffix gives the name with
\* only the disallowed punctuation removed.
BusinessNameCleaned ==
    IsLegalNameFill =>
        \A c \in {<< "Acme Corp", "Acme" >>, << "Acme, Inc.", "Acme" >>,
                  << "Smith & Sons", "Smith & Sons" >>, << "O'Neil Bros.", "ONeil Bros" >>} :
            data.entity_name = c[1] => lastOp.value = c[2]

\* C20: a request with a missing or wrong Authorization header is answered 401
\* before the payload is read, whatever the body holds: no browser session is
\* opened, no outcome record is persisted and no artifact is written for it.
UnauthorizedDoesNothing ==
    (caller = "http" /\ ~request.authorized) =>
        /\ pc = "done"
        /\ response = [status |-> 401, detail |-> "Invalid API key", body |-> << >>]
        /\ sessions = 0
        /\ driver = "none"
        /\ lastOp.op = "none"
        /\ journal = << >>
        /\ handed = << >>
        /\ blobs = << >>
        /\ files = {}
        /\ png = NoneVal

\* an unauthorized request whose body is not even JSON has been answered 401
UnauthorizedDoesNothingWitness ==
    /\ caller = "http"
    /\ ~request.authorized
    /\ request.body = "invalid"
    /\ pc = "done"
    /\ response.status = 401
    /\ served >= 1

\* the payload of the request is malformed or incomplete
MalformedRequest ==
    \/ request.body \in {"invalid", "nondict"}
    \/ /\ request.body = "dict"
       /\ \/ ~DictHas(request.payload, "entityProcessId")
          \/ ~DictHas(request.payload, "formType")
          \/ DictGet(request.payload, "formType", NULL) # "EIN"

\* C21: an authenticated request with a malformed or incomplete payload (a body
\* that is not valid JSON, JSON that is not an object, missing entityProcessId
\* or formType, or a formType other than "EIN") is answered 400 and starts no
\* automation run.
MalformedAnswered400 ==
    (caller = "http" /\ request.authorized /\ MalformedRequest) =>
        /\ pc = "done"
        /\ response.status = 400
        /\ sessions = 0
        /\ journal = << >>
        /\ handed = << >>


\* both runs are inside capture_page_as_png, each with its temporary PDF written
BothCapturing == pc = "convert" /\ peer.stage = "convert"

\* C22: whenever two runs are capturing at the same time, the PNG paths they
\* write differ and so do the temporary PDF paths they write and remove.
ConcurrentRunsDistinctFiles ==
    BothCapturing =>
        /\ STATIC_DIR \o png_filename # STATIC_DIR \o peer.filename
        /\ temp_pdf_of(png_filename) # temp_pdf_of(peer.filename)


\* capture_page_as_png has been entered by the run
CaptureEntered == trail # << >>

\* C23: the capture a run invokes takes a direct screenshot first, and prints
\* the page to PDF only after that screenshot attempt.
ScreenshotBeforePdf ==
    CaptureEntered => trail[1] = "get_screenshot_as_png"


InTrail(call) == \E i \in DOMAIN trail : trail[i] = call

\* capture_page_as_png has returned to run_automation
CaptureReturned == CaptureEntered /\ pc \notin {"capture", "convert"}

\* C24: capture_page_as_png never raises (it returns a pair and the run goes
\* on to the upload step without an error), and whenever it has written a
\* temporary PDF its last call before returning is the removal of that file,
\* after a saved PNG and after a later failure alike.
CaptureNeverRaisesAndRemovesPdf ==
    CaptureReturned =>
        /\ png \in {capture_page_as_png(png_filename, o) : o \in CaptureOutcomes}
        /\ pc = "upload" => error = NULL
        /\ InTrail("write_pdf") => trail[Len(trail)] = "remove_pdf"

\* the conversion failed after the PDF was written, and the removal was attempted
CaptureNeverRaisesAndRemovesPdfWitness ==
    /\ pc = "upload"
    /\ InTrail("write_pdf")
    /\ InTrail("fitz_open")
    /\ png = TupleVal(NULL, NULL)
    /\ trail[Len(trail)] = "remove_pdf"
    /\ temp_pdf_of(png_filename) \in files


\* the latest browser interaction is a click_button call
ClickCalled == lastOp.op = "click"

IsStrategy(call) == call[1] \in ClickedBy

\* C25: within an attempt of click_button the direct click comes first, the
\* script click only after the direct click threw and the pointer click only
\* after the script click threw; a strategy that does not throw is the last
\* call of click_button, which returns True.
StrategiesInOrder ==
    ClickCalled =>
        LET c == lastOp.calls
        IN  \A i \in DOMAIN c :
                /\ c[i] = << "wait", "ok" >> => (i < Len(c) /\ c[i + 1][1] = "click")
                /\ c[i][1] = "click" => (i > 1 /\ c[i - 1] = << "wait", "ok" >>)
                /\ c[i][1] = "js" => (i > 1 /\ c[i - 1] = << "click", "throws" >>)
                /\ c[i][1] = "pointer" => (i > 1 /\ c[i - 1] = << "js", "throws" >>)
                /\ (IsStrategy(c[i]) /\ c[i][2] = "ok") => (i = Len(c) /\ lastOp.ok)

\* the direct click threw, the script click worked and nothing was tried after it
StrategiesInOrderWitness ==
    /\ ClickCalled
    /\ lastOp.ok
    /\ lastOp.calls = << << "wait", "ok" >>, << "click", "throws" >>, << "js", "ok" >> >>


\* the attempts click_button began, and the strategies it invoked
AttemptsMade(c) == Cardinality({i \in DOMAIN c : c[i][1] = "wait"})
StrategiesInvoked(c) == Cardinality({i \in DOMAIN c : IsStrategy(c[i])})

\* the attempt that begins at call i failed: its wait threw, or the wait came
\* back and the three strategies threw
AttemptFailed(c, i) ==
    \/ c[i] = << "wait", "throws" >>
    \/ /\ i + Len(click_strategies) <= Len(c)
       /\ \A k \in DOMAIN click_strategies : c[i + k] = << click_strategies[k], "throws" >>

\* C26: click_button makes at most retries+1 attempts and at most
\* 3*(retries+1) strategy invocations, and returns False only after retries+1
\* attempts that each failed, at the wait for the element or on all three
\* strategies.
ClickBounded ==
    ClickCalled =>
        LET c == lastOp.calls
        IN  /\ AttemptsMade(c) <= DefaultRetries + 1
            /\ StrategiesInvoked(c) <= Len(click_strategies) * (DefaultRetries + 1)
            /\ ~lastOp.ok =>
                    /\ AttemptsMade(c) = DefaultRetries + 1
                    /\ \A i \in DOMAIN c : c[i][1] = "wait" => AttemptFailed(c, i)

\* click_button returned False after four failed attempts of both kinds
ClickBoundedWitness ==
    /\ ClickCalled
    /\ ~lastOp.ok
    /\ AttemptsMade(lastOp.calls) = DefaultRetries + 1
    /\ StrategiesInvoked(lastOp.calls) = 6
    /\ lastOp.calls[1] = << "wait", "throws" >>


\* the latest browser interaction is a select_radio call
RadioCalled == lastOp.op = "radio"

\* C27: whenever the script that forces `checked` fails in select_radio, by
\* reporting that the state did not stick or by throwing, the native click is
\* made next; select_radio returns False only when both have failed.
RadioFallsBackToClick ==
    RadioCalled =>
        LET c == lastOp.calls
        IN  /\ \A i \in DOMAIN c :
                    (c[i][1] = "set_checked" /\ c[i][2] \in {"false", "throws"}) =>
                        (i < Len(c) /\ c[i + 1][1] = "click")
            /\ (~lastOp.ok /\ c[1] = << "wait", "ok" >>) =>
                    \E i \in DOMAIN c : c[i] = << "click", "throws" >>


LastFill(target, ok) == lastOp.op = "fill" /\ lastOp.target = target /\ lastOp.ok = ok

\* C28: on the responsible-party page the applicant id of an identity field is
\* the next fill only when the fill of the responsibleParty id has just
\* returned False, is passed over when that fill returned True, and the run
\* aborts when the fill of the applicant id returns False as well.
ApplicantOnlyAfterFailure ==
    \A f \in IdentityFields :
        /\ (AtStatement("fill") /\ Current.target = f[2]) =>
                /\ prog[ip - 1].target = f[1]
                /\ BlankValue(prog[ip - 1].value) \/ LastFill(f[1], FALSE)
        /\ (LastFill(f[1], TRUE) /\ AtStatement("fill")) => Current.target # f[2]
        /\ (pc # "navigate" /\ ip \in 1..Len(prog) /\ prog[ip].target = f[2]) =>
                /\ mustFailed
                /\ error = prog[ip].msg
                /\ BlankValue(prog[ip].value) \/ LastFill(f[2], FALSE)

\* the fill of responsiblePartySSN2 has returned False and applicantSSN2 is next
ApplicantOnlyAfterFailureWitness ==
    /\ AtStatement("fill")
    /\ Current.target = "applicantSSN2"
    /\ LastFill("responsiblePartySSN2", FALSE)


\* the steps whose failure is tolerated: the care-of-name wait and fill, the
\* Accept As Entered clicks, the legal-business-name fill, the two ids of the
\* articles-filed-state dropdown, the fiscal-month selection
TolerableTargets ==
    { "physicalAddressCareofName", AcceptButton, "businessOperationalLegalName",
      "articalsFiledState", "businessOperationalState", "fiscalMonth" }

AtTolerable == ip \in 1..Len(prog) /\ prog[ip].target \in TolerableTargets

FiscalCalled == lastOp.op = "fiscal"

\* C29: no run stops at a tolerable step: whatever such a step returns, the
\* run goes on to a later statement without an error; and the fiscal-month
\* selection makes one round at most.
TolerableStepsNeverAbort ==
    /\ [](AtTolerable => (pc = "navigate" /\ error = NULL))
    /\ [](FiscalCalled => AttemptsMade(lastOp.calls) <= 1)
    /\ [][AtTolerable =>
            /\ ip' > ip
            /\ pc' \in {"navigate", "final_click"}
            /\ error' = NULL
            /\ mustFailed' = mustFailed]_vars

\* the fiscal-month selection threw in its only round and the run went on
TolerableStepsNeverAbortWitness ==
    /\ FiscalCalled
    /\ ~lastOp.ok
    /\ lastOp.calls = fiscal_calls("select_throws")
    /\ pc = "navigate"
    /\ prog[ip - 1].target = "fiscalMonth"
    /\ error = NULL


\* every mandatory step succeeded and the run went on to the capture
OtherwiseSuccessful == ~mustFailed /\ CaptureEntered

\* the record of the run is among the stored blobs
RecordStored ==
    data.entity_name # NULL /\ StoredUnder(json_blob_name(data.record_id, data.entity_name)) > 0

\* C30: a run whose mandatory steps all succeeded returns True with the success
\* message whether or not storage accepted the screenshot and the record; a
\* rejected upload or a rejected record never sends it to the except clause.
StorageFailureKeepsSuccess ==
    OtherwiseSuccessful =>
        /\ pc # "except"
        /\ error = NULL
        /\ pc \in {"cleanup", "returned", "done"} =>
                /\ Returned
                /\ retval[1] = TRUE
                /\ retval[2] = "Form submitted successfully"
                /\ handed = << "success" >>

\* the PNG was saved, storage rejected both the screenshot and the record, and
\* the run returned True
StorageFailureKeepsSuccessWitness ==
    /\ pc = "done"
    /\ OtherwiseSuccessful
    /\ CaptureSaved
    /\ data.entity_name # NULL
    /\ ~RecordStored
    /\ blobs = << >>
    /\ azure_blob_url = NULL
    /\ retval[1] = TRUE


\* C31: a run hands no record to storage before its outcome is known and
\* exactly one once it has returned; that record's response_status is
\* "success" exactly when the first element returned is True, and is never None.
OneOutcomeRecord ==
    /\ Len(handed) <= 1
    /\ pc \in {"idle", "init_driver", "navigate", "final_click", "capture", "convert", "upload",
               "save", "except"} => handed = << >>
    /\ Returned =>
            /\ Len(handed) = 1
            /\ handed[1] \in {"success", "fail"}
            /\ handed[1] = json_status
            /\ (handed[1] = "success") <=> (retval[1] = TRUE)

\* a run that opened a session, aborted in the form and handed over one "fail" record
OneOutcomeRecordWitness ==
    /\ pc = "done"
    /\ Returned
    /\ sessions = 1
    /\ mustFailed
    /\ handed = << "fail" >>
    /\ retval[1] = FALSE
    /\ journal # << >>


\* the radios answered from the business-nature page on, in order
FixedAnswers == nature_radios \o << "other", "other", "receiveonline" >>

\* the ids of the radios the run has selected or tried to select, in order
RadiosIssued ==
    LET r == SelectSeq(journal, LAMBDA e : e[1] = "radio")
    IN  [i \in 1..Len(r) |-> r[i][2]]

\* the position of the first business-nature radio among them, or 0
NatureStart ==
    LET r == RadiosIssued
        hits == {i \in 1..Len(r) : r[i] = nature_radios[1]}
    IN  IF hits = {} THEN 0 ELSE CHOOSE i \in hits : \A j \in hits : i <= j

AnswersFromNature ==
    IF NatureStart = 0 THEN << >> ELSE SubSeq(RadiosIssued, NatureStart, Len(RadiosIssued))

\* C32: whatever the record, the radios issued from the business-nature page on
\* are the five "_n" radios, "other", "other" and "receiveonline", in that
\* order; a run whose latest such selection failed has aborted, and a run that
\* left the form has issued them all.
FixedAnswersForAll ==
    /\ (lastOp.op = "radio" /\ InJournal("radio", nature_radios[1])) =>
            LET answers == AnswersFromNature
            IN  /\ Len(answers) <= Len(FixedAnswers)
                /\ answers = SubSeq(FixedAnswers, 1, Len(answers))
                /\ ~lastOp.ok => (mustFailed /\ pc \notin {"navigate", "final_click"})
    /\ pc = "final_click" => AnswersFromNature = FixedAnswers

\* a non-profit run with a description of its own has issued all eight answers
FixedAnswersForAllWitness ==
    /\ pc = "final_click"
    /\ data.entity_type = "Non-Profit Corporation"
    /\ data.business_description = "Local Charity fund"
    /\ AnswersFromNature = FixedAnswers


\* C33: the name typed into the legal-name field is the entity name without its
\* last word when that word is one of Corp, Inc, LLC, LC, PLLC, PA (the whole
\* word, and only that one), and otherwise the name itself, in both cases
\* without the characters that are not word characters, whitespace, "-" or "&".
SuffixWordRemoved ==
    IsLegalNameFill =>
        \A c \in {<< "Acme Corp", "Acme" >>, << "Acme, Inc.", "Acme Inc" >>,
                  << "Smith & Sons PLLC", "Smith & Sons" >>,
                  << "Smith & Sons", "Smith & Sons" >>, << "O'Neil Bros.", "ONeil Bros" >>} :
            data.entity_name = c[1] => lastOp.value = c[2]


\* the field id each mailing sub-field is typed into
mailing_field_ids ==
    << "mailingAddressStreet", "mailingAddressCity", "mailingAddressState",
       "mailingAddressPostalCode" >>

\* the sub-fields of the record's mailing address that are blank or missing
BlankMailingKeys ==
    {i \in DOMAIN mailing_keys : ~NonBlank(DictGet(mailing_address_of(data), mailing_keys[i], ""))}

\* some sub-field is non-blank, some is blank or missing, and none is None
MixedMailing ==
    /\ DictTruthy(data.mailing_address)
    /\ BlankMailingKeys \notin {{}, DOMAIN mailing_keys}
    /\ \A i \in DOMAIN mailing_keys : DictGet(mailing_address_of(data), mailing_keys[i], "") # NULL

FirstBlankMailingField ==
    mailing_field_ids[CHOOSE i \in BlankMailingKeys : \A j \in BlankMailingKeys : i <= j]

\* C34: a run whose mailing address has a non-blank and a blank or missing
\* sub-field selects, of the two mailing radios, only the "yes" radio, never
\* leaves the form and never returns True; when every browser interaction
\* before it succeeded, it aborts at the fill of the first blank mailing field.
MixedMailingAborts ==
    MixedMailing =>
        /\ ~InJournal("radio", "radioAnotherAddress_n")
        /\ pc \notin {"final_click", "capture", "convert", "upload", "save"}
        /\ Returned => (retval[1] = FALSE /\ json_status = "fail")
        /\ (pc = "except" /\ allOk) =>
                /\ InJournal("radio", "radioAnotherAddress_y")
                /\ prog[ip].op = "fill"
                /\ prog[ip].target = FirstBlankMailingField
                /\ error = prog[ip].msg

\* a mailing address of a street alone: the run aborted at the city field
MixedMailingAbortsWitness ==
    /\ MixedMailing
    /\ DictGet(mailing_address_of(data), "mailingStreet", "") = "9 Oak Ave"
    /\ pc = "done"
    /\ ip \in 1..Len(prog)
    /\ prog[ip].target = "mailingAddressCity"
    /\ error = "Failed to fill Mailing City"
    /\ retval[1] = FALSE
    /\ lastOp.target = "mailingAddressStreet"
    /\ lastOp.ok


IsCountyFill == lastOp.op = "fill" /\ lastOp.target = "businessOperationalCounty"

IsArticlesStateSelect ==
    lastOp.op = "dropdown" /\ lastOp.target \in {"articalsFiledState", "businessOperationalState"}

\* C35: the value typed into the county field is the record's county, or the
\* default county when the record has none, and the value selected in the
\* articles-filed-state dropdown is the normalized entity state.
CountyAndFilingState ==
    /\ IsCountyFill => lastOp.value = _get_defaults(data).county
    /\ IsArticlesStateSelect => lastOp.value = normalize_state(data.entity_state)


IsLLCStateSelect == lastOp.op = "dropdown" /\ lastOp.target = "state"

\* the state the LLC page works with: entity_state, else entity_state_record_state
LLCStateText == OrElse(data.entity_state, data.entity_state_record_state)

\* text s is a table name or two letters, surrounding whitespace and letter case aside
RecognizedState(s) ==
    \/ \E k \in DOMAIN STATE_MAPPING : NamesState(s, k)
    \/ IsTwoLetters(Strip(s))

\* C36: in an LLC run whose state is absent or is neither a table name nor two
\* letters, the state selected on the LLC page is "TX" and the page's Continue
\* is followed by the radio_n selection and two Continue clicks.
UnknownStateIsTexas ==
    (IsLLCStateSelect /\ (~Truthy(LLCStateText) \/ ~RecognizedState(LLCStateText))) =>
        /\ lastOp.value = "TX"
        /\ \A i \in 1..Len(prog) :
              (prog[i].op = "dropdown" /\ prog[i].target = "state") =>
                  /\ i + 4 <= Len(prog)
                  /\ prog[i + 2].target = "radio_n"
                  /\ prog[i + 3].op = "click" /\ prog[i + 3].target = ContinueButton
                  /\ prog[i + 4].op = "click" /\ prog[i + 4].target = ContinueButton


PastResponsibleParty == lastOp.op = "radio" /\ lastOp.target = "iamsole" /\ lastOp.ok

\* C37: in a run that gets past the five identity fields of the
\* responsible-party page, the fields were filled under one naming scheme:
\* all five under the responsibleParty ids or all five under the applicant ids.
OneIdentityScheme ==
    PastResponsibleParty => Cardinality(schemes) = 1


Downloaded == pc = "downloaded"

\* the record and the second a screenshot was captured for and at
OwnerOf(name) == CHOOSE id \in ListedIds : \E now \in Timestamps : name = png_filename_of(id, now)
StampOf(name) == CHOOSE now \in Timestamps : name = png_filename_of(OwnerOf(name), now)

ScreenshotsOf(record_id, listing) == {f \in listing : OwnerOf(f) = record_id}

\* C38: a download for record r answers 404 when the directory holds no
\* screenshot captured for r, and otherwise returns a screenshot captured for r,
\* the one with the greatest capture timestamp; it never returns a file of
\* another record.
DownloadOwnLatest ==
    Downloaded =>
        LET own == ScreenshotsOf(download.record_id, download.listing)
        IN  IF own = {}
            THEN download.status = 404
            ELSE /\ download.status = 200
                 /\ \E f \in own :
                        /\ download.file = STATIC_DIR \o f
                        /\ \A g \in own : Decimal(StampOf(g)) <= Decimal(StampOf(f))


Primitives == {"fill", "click", "radio", "dropdown"}

AtPrimitive == pc = "navigate" /\ ip \in 1..Len(prog) /\ Current.op \in Primitives

\* C39: fill_field, click_button, select_radio and select_dropdown return a
\* boolean for every outcome in the browser and never raise: the except clause
\* is entered from such a statement only through the caller's own raise after
\* a False return, with the caller's message, and otherwise the run goes on
\* without an error; fill_field with an empty or whitespace-only value returns
\* False and leaves the browser untouched.
PrimitivesNeverRaise ==
    [][AtPrimitive =>
          /\ lastOp'.ok \in BOOLEAN
          /\ pc' = "except" =>
                /\ Current.failSkip = -1
                /\ error' = Current.msg
                /\ lastOp' = lastOp \/ ~lastOp'.ok
          /\ pc' # "except" => error' = error
          /\ (Current.op = "fill" /\ BlankValue(Current.value)) =>
                /\ UNCHANGED browserVars
                /\ IF Current.failSkip = -1
                   THEN pc' = "except"
                   ELSE ip' = ip + 1 + Current.failSkip]_vars

\* a dropdown selection has returned False and the run goes on without an error
PrimitivesNeverRaiseWitness ==
    /\ lastOp.op = "dropdown"
    /\ ~lastOp.ok
    /\ pc = "navigate"
    /\ error = NULL
    /\ ~mustFailed


\* the sub-type entry of the record's entity type is "N/A"
SubTypeNotApplicable == Get(SUB_TYPE_MAPPING, entity_type_of(data), "Other") = "N/A"

\* C40: every entity type whose sub-type entry is "N/A" maps to a category
\* whose sub-type page is skipped (LLC or Estate), so in the run of a record of
\* such a type no sub-type radio is selected: "N/A" is never looked up as a
\* sub-type radio id.
NotApplicableIsSkipped ==
    /\ \A t \in DOMAIN SUB_TYPE_MAPPING :
          SUB_TYPE_MAPPING[t] = "N/A" => SkipsSubType(Get(ENTITY_TYPE_MAPPING, t, NULL))
    /\ SubTypeNotApplicable =>
          /\ SkipsSubType(mapped_type_of(data))
          /\ \A i \in 1..Len(journal) : ~IsSubTypeSelect(journal[i])

====
